---------------------------- MODULE Spec2Model ----------------------------
(***************************************************************************)
(* Model of the structural (AST) search engine of side-quest-kit:          *)
(*   src/lib/ast/searcher.ts   ASTSearcher (discovery, batches, matches)   *)
(*   src/lib/ast/languages.ts  language registry (getParser, loadLanguage) *)
(*   src/lib/ast/pattern.ts    ASTPattern (compile, matches)               *)
(*   src/lib/kit-wrapper.ts    executeAstSearch (timeout, error mapping)   *)
(* Strings are TLA+ strings; JavaScript string methods are operators.      *)
(***************************************************************************)
EXTENDS Integers, Sequences, FiniteSets, TLC

(***************************************************************************)
(* Bounds of the model                                                     *)
(***************************************************************************)
\* largest maxResults a request asks for
MaxResultsBound == 4
\* largest number of faults in a snapshot: candidate files whose read or parse
\* fails, and languages whose grammar cannot be loaded
MaxFaults == 1
\* number of concurrent getParser callers in the registry specification
NumCallers == 3

\* the function f as an explicit table: TLC then evaluates it once instead
\* of at every application
Table(f) == f @@ <<>>

(***************************************************************************)
(* JavaScript string methods                                               *)
(***************************************************************************)
Min(a, b) == IF a < b THEN a ELSE b
Max(a, b) == IF a > b THEN a ELSE b

\* String.prototype.substring(a, b): clamps to [0, length], swaps if a > b
Substring(s, a, b) ==
    LET ca == Max(0, Min(a, Len(s)))
        cb == Max(0, Min(b, Len(s)))
        lo == Min(ca, cb)
        hi == Max(ca, cb)
    IN  SubSeq(s, lo + 1, hi)

\* String.prototype.slice(a, b) for non-negative a, b
Slice(s, a, b) ==
    LET ca == Min(a, Len(s))
        cb == Min(b, Len(s))
    IN  IF ca >= cb THEN "" ELSE SubSeq(s, ca + 1, cb)

\* String.prototype.includes(sub)
Includes(s, sub) ==
    \E i \in 0..(Len(s) - Len(sub)) : SubSeq(s, i + 1, i + Len(sub)) = sub

\* String.prototype.startsWith(p)
StartsWith(s, p) == Len(p) <= Len(s) /\ SubSeq(s, 1, Len(p)) = p

\* String.prototype.lastIndexOf(ch) for a one-character ch; -1 when absent
LastIndexOf(s, ch) ==
    LET hits == {i \in 1..Len(s) : SubSeq(s, i, i) = ch}
    IN  IF hits = {} THEN -1
        ELSE (CHOOSE i \in hits : \A j \in hits : j <= i) - 1

UpperChars == "ABCDEFGHIJKLMNOPQRSTUVWXYZ"
LowerChars == "abcdefghijklmnopqrstuvwxyz"

ToLowerChar(c) ==
    IF \E i \in 1..26 : SubSeq(UpperChars, i, i) = c
    THEN LET i == CHOOSE k \in 1..26 : SubSeq(UpperChars, k, k) = c
         IN  SubSeq(LowerChars, i, i)
    ELSE c

RECURSIVE ToLowerCase(_)
\* String.prototype.toLowerCase()
ToLowerCase(s) ==
    IF s = "" THEN "" ELSE ToLowerChar(Head(s)) \o ToLowerCase(Tail(s))

(***************************************************************************)
(* Language registry: extension table (languages.ts)                       *)
(***************************************************************************)
NoLanguage == "null"

Extensions == {".ts", ".tsx", ".mts", ".cts", ".js", ".jsx", ".mjs", ".cjs", ".py"}

LANGUAGES(ext) ==
    CASE ext = ".ts"  -> "typescript"
      [] ext = ".tsx" -> "tsx"
      [] ext = ".mts" -> "typescript"
      [] ext = ".cts" -> "typescript"
      [] ext = ".js"  -> "javascript"
      [] ext = ".jsx" -> "javascript"
      [] ext = ".mjs" -> "javascript"
      [] ext = ".cjs" -> "javascript"
      [] ext = ".py"  -> "python"
      [] OTHER        -> NoLanguage

SUPPORTED_LANGUAGES == {"typescript", "tsx", "javascript", "python"}

detectLanguage(filePath) ==
    LET lastDot == LastIndexOf(filePath, ".")
    IN  IF lastDot = -1 THEN NoLanguage
        ELSE LET ext == ToLowerCase(Substring(filePath, lastDot, Len(filePath)))
                 language == LANGUAGES(ext)
             IN  IF language # NoLanguage /\ language \in SUPPORTED_LANGUAGES
                 THEN language ELSE NoLanguage

isSupported(filePath) == detectLanguage(filePath) # NoLanguage

(***************************************************************************)
(* Snapshot of the file contents: source text and the syntax tree that     *)
(* the tree-sitter grammar of the file's language produces for it.  A node *)
(* is [type, startIndex, endIndex, children, nameField]; children are node *)
(* numbers in source order, nameField is the child bound to the field      *)
(* "name" (0 when the node has none).                                      *)
(***************************************************************************)
RepoPath == "/r"

N(type, s, e, ch, nm) ==
    [type |-> type, startIndex |-> s, endIndex |-> e, children |-> ch, nameField |-> nm]

SourceA == "async function f(){} function g(){}"
TreeA == <<
    N("program", 0, 35, <<2, 6>>, 0),
    N("function_declaration", 0, 20, <<3, 4, 5>>, 4),
    N("async", 0, 5, <<>>, 0),
    N("identifier", 15, 16, <<>>, 0),
    N("statement_block", 18, 20, <<>>, 0),
    N("function_declaration", 21, 35, <<7, 8>>, 7),
    N("identifier", 30, 31, <<>>, 0),
    N("statement_block", 33, 35, <<>>, 0) >>

SourceB == "import os\ndef h(): pass"
TreeB == <<
    N("module", 0, 23, <<2, 4>>, 0),
    N("import_statement", 0, 9, <<3>>, 3),
    N("dotted_name", 7, 9, <<>>, 0),
    N("function_definition", 10, 23, <<5, 6>>, 5),
    N("identifier", 14, 15, <<>>, 0),
    N("block", 19, 23, <<>>, 0) >>

SourceC == "export class K{m(){try{}catch{}}}"
TreeC == <<
    N("program", 0, 33, <<2>>, 0),
    N("export_statement", 0, 33, <<3>>, 0),
    N("class_declaration", 7, 33, <<4, 5>>, 4),
    N("type_identifier", 13, 14, <<>>, 0),
    N("class_body", 14, 33, <<6>>, 0),
    N("method_definition", 15, 32, <<7, 8>>, 7),
    N("property_identifier", 15, 16, <<>>, 0),
    N("statement_block", 18, 32, <<9>>, 0),
    N("try_statement", 19, 31, <<>>, 0) >>

\* a method whose name starts with "async", and an anonymous arrow function
SourceD == "class A{asyncM(){}}\n()=>{try{}catch{}}"
TreeD == <<
    N("program", 0, 38, <<2, 8>>, 0),
    N("class_declaration", 0, 19, <<3, 4>>, 3),
    N("type_identifier", 6, 7, <<>>, 0),
    N("class_body", 7, 19, <<5>>, 0),
    N("method_definition", 8, 18, <<6, 7>>, 6),
    N("property_identifier", 8, 14, <<>>, 0),
    N("statement_block", 16, 18, <<>>, 0),
    N("expression_statement", 20, 38, <<9>>, 0),
    N("arrow_function", 20, 38, <<10>>, 0),
    N("statement_block", 24, 38, <<11>>, 0),
    N("try_statement", 25, 37, <<>>, 0) >>

RECURSIVE Repeat(_, _)
\* String.prototype.repeat(count)
Repeat(s, count) ==
    IF count = 0 THEN ""
    ELSE IF count % 2 = 0
         THEN LET half == Repeat(s, count \div 2) IN half \o half
         ELSE s \o Repeat(s, count - 1)

\* a call with a number and a negated identifier of 500 characters as its
\* arguments: the node texts are 1, 500, 501, 505 and 506 characters long
SourceE == "f(5,!" \o Repeat("a", 500) \o ")"
TreeE == <<
    N("program", 0, 506, <<2>>, 0),
    N("expression_statement", 0, 506, <<3>>, 0),
    N("call_expression", 0, 506, <<4, 5>>, 0),
    N("identifier", 0, 1, <<>>, 0),
    N("arguments", 1, 506, <<6, 7>>, 0),
    N("number", 2, 3, <<>>, 0),
    N("unary_expression", 4, 505, <<8>>, 0),
    N("identifier", 5, 505, <<>>, 0) >>

SourceF == "const {a}=b"
TreeF == <<
    N("program", 0, 11, <<2>>, 0),
    N("lexical_declaration", 0, 11, <<3>>, 0),
    N("variable_declarator", 6, 11, <<4, 6>>, 4),
    N("object_pattern", 6, 9, <<5>>, 0),
    N("shorthand_property_identifier_pattern", 7, 8, <<>>, 0),
    N("identifier", 10, 11, <<>>, 0) >>

PathA == "/r/a.ts"
PathB == "/r/b.PY"
PathC == "/r/lib/c.ts"
ParsedFiles == {PathA, PathB, PathC}

\* files parsed on their own, outside the directory snapshot
PathD == "/r/d.js"
PathE == "/r/e.js"
PathF == "/r/f.js"
MatchFiles == ParsedFiles \cup {PathD, PathE, PathF}

FileSource(path) ==
    CASE path = PathA -> SourceA
      [] path = PathB -> SourceB
      [] path = PathC -> SourceC
      [] path = PathD -> SourceD
      [] path = PathE -> SourceE
      [] path = PathF -> SourceF
      [] OTHER -> ""

\* what parser.parse(source) returns for the file when the parse succeeds
FileTree(path) ==
    CASE path = PathA -> TreeA
      [] path = PathB -> TreeB
      [] path = PathC -> TreeC
      [] path = PathD -> TreeD
      [] path = PathE -> TreeE
      [] path = PathF -> TreeF
      [] OTHER -> << N("program", 0, 0, <<>>, 0) >>

RootNode == 1

\* node.parent: the node that lists n among its children (0 for the root)
ParentOf(tree, n) ==
    IF \E p \in 1..Len(tree) : \E i \in 1..Len(tree[p].children) : tree[p].children[i] = n
    THEN CHOOSE p \in 1..Len(tree) : \E i \in 1..Len(tree[p].children) : tree[p].children[i] = n
    ELSE 0

\* node.text
NodeText(tree, n, source) == Substring(source, tree[n].startIndex, tree[n].endIndex)

\* node.startPosition: row and column of startIndex in the source
StartRow(source, idx) == Cardinality({i \in 1..idx : SubSeq(source, i, i) = "\n"})
StartColumn(source, idx) ==
    LET nls == {i \in 1..idx : SubSeq(source, i, i) = "\n"}
    IN  IF nls = {} THEN idx ELSE idx - (CHOOSE i \in nls : \A j \in nls : j <= i)

(***************************************************************************)
(* JSON.parse, for the texts a criteria pattern is written in: a scalar    *)
(* (null, true, false, digits, a quoted string without escapes), [] or an  *)
(* object whose members are "key":scalar.  Strings hold no comma.          *)
(* A value is a record with a kind; [kind |-> "fail"] is a SyntaxError.    *)
(***************************************************************************)
Undefined == [kind |-> "undefined"]
JNull == [kind |-> "null"]
JBool(b) == [kind |-> "boolean", bool |-> b]
JNum(t) == [kind |-> "number", num |-> t]
JStr(t) == [kind |-> "string", str |-> t]
JArray == [kind |-> "array"]
JObject(f) == [kind |-> "object", fields |-> f]
JFail == [kind |-> "fail"]
NoFields == [k \in {} |-> Undefined]

IsSpace(c) == c = " " \/ c = "\n" \/ c = "\t"

RECURSIVE TrimLeft(_)
TrimLeft(s) == IF s # "" /\ IsSpace(Head(s)) THEN TrimLeft(Tail(s)) ELSE s
RECURSIVE TrimRight(_)
TrimRight(s) ==
    IF s # "" /\ IsSpace(SubSeq(s, Len(s), Len(s)))
    THEN TrimRight(SubSeq(s, 1, Len(s) - 1)) ELSE s
\* String.prototype.trim()
Trim(s) == TrimRight(TrimLeft(s))

\* String.prototype.indexOf(ch) for a one-character ch; -1 when absent
IndexOf(s, ch) ==
    LET hits == {i \in 1..Len(s) : SubSeq(s, i, i) = ch}
    IN  IF hits = {} THEN -1
        ELSE (CHOOSE i \in hits : \A j \in hits : i <= j) - 1

RECURSIVE Split(_, _)
Split(s, ch) ==
    LET i == IndexOf(s, ch)
    IN  IF i = -1 THEN <<s>>
        ELSE <<SubSeq(s, 1, i)>> \o Split(SubSeq(s, i + 2, Len(s)), ch)

IsDigits(t) == t # "" /\ \A i \in 1..Len(t) : Includes("0123456789", SubSeq(t, i, i))

JSONScalar(t) ==
    CASE t = "null"  -> JNull
      [] t = "true"  -> JBool(TRUE)
      [] t = "false" -> JBool(FALSE)
      [] t = "[]"    -> JArray
      [] t = "{}"    -> JObject(NoFields)
      [] IsDigits(t) /\ (Len(t) = 1 \/ Head(t) # "0") -> JNum(t)
      [] Len(t) >= 2 /\ Head(t) = "\"" /\ SubSeq(t, Len(t), Len(t)) = "\""
            /\ ~Includes(SubSeq(t, 2, Len(t) - 1), "\"")
            /\ ~Includes(SubSeq(t, 2, Len(t) - 1), "\\") -> JStr(SubSeq(t, 2, Len(t) - 1))
      [] OTHER -> JFail

JSONMember(m) ==
    LET c == IndexOf(m, ":")
    IN  IF c = -1 THEN [key |-> JFail, value |-> JFail]
        ELSE [key   |-> JSONScalar(Trim(SubSeq(m, 1, c))),
              value |-> JSONScalar(Trim(SubSeq(m, c + 2, Len(m))))]

JSONParse(text) ==
    LET t == Trim(text)
    IN  IF Len(t) >= 2 /\ Head(t) = "{" /\ SubSeq(t, Len(t), Len(t)) = "}"
                       /\ Trim(SubSeq(t, 2, Len(t) - 1)) # ""
        THEN LET parts == Split(SubSeq(t, 2, Len(t) - 1), ",")
                 mem == [i \in 1..Len(parts) |-> JSONMember(parts[i])]
                 keys == {mem[i].key.str : i \in {j \in 1..Len(parts) : mem[j].key.kind = "string"}}
                 last(k) == CHOOSE i \in 1..Len(parts) :
                                /\ mem[i].key = JStr(k)
                                /\ \A j \in 1..Len(parts) : mem[j].key = JStr(k) => j <= i
             IN  IF \E i \in 1..Len(parts) :
                        mem[i].key.kind # "string" \/ mem[i].value.kind = "fail"
                 THEN JFail
                 ELSE JObject([k \in keys |-> mem[last(k)].value])
        ELSE IF Len(t) >= 2 /\ Head(t) = "{" /\ SubSeq(t, Len(t), Len(t)) = "}"
             THEN JObject(NoFields)
             ELSE JSONScalar(t)

\* property read criteria.k: own members of an object; undefined on the
\* other kinds (a read on null raises a TypeError, see MatchThrows)
Field(v, k) ==
    IF v.kind = "object" /\ k \in DOMAIN v.fields THEN v.fields[k] ELSE Undefined

\* ToBoolean
Truthy(v) ==
    CASE v.kind = "boolean" -> v.bool
      [] v.kind = "number"  -> v.num # "0"
      [] v.kind = "string"  -> v.str # ""
      [] v.kind \in {"array", "object"} -> TRUE
      [] OTHER -> FALSE

\* ToString, as String.prototype.includes applies it to its argument
ToStr(v) ==
    CASE v.kind = "string"  -> v.str
      [] v.kind = "number"  -> v.num
      [] v.kind = "boolean" -> IF v.bool THEN "true" ELSE "false"
      [] v.kind = "array"   -> ""
      [] OTHER -> "[object Object]"

(***************************************************************************)
(* ASTPattern (pattern.ts)                                                 *)
(***************************************************************************)
SIMPLE == "simple"
PATTERN == "pattern"

FUNCTION_NODE_TYPES ==
    {"function_declaration", "function_expression", "arrow_function",
     "method_definition", "generator_function_declaration", "function_definition"}
CLASS_NODE_TYPES == {"class_declaration", "class_expression", "class_definition"}
TRY_NODE_TYPES == {"try_statement"}

TextMatchCriteria(text) == JObject([k \in {"textMatch"} |-> JStr(text)])

\* the fields of a freshly constructed ASTPattern, before compile()
NewPattern(patternText, searchMode) ==
    [pattern |-> patternText, mode |-> searchMode,
     isAsync |-> FALSE, isDef |-> FALSE, isClass |-> FALSE,
     isTry |-> FALSE, isImport |-> FALSE, isExport |-> FALSE,
     criteria |-> JObject(NoFields)]

\* a compileSimple whose text fallback keeps the lower-cased text
compileSimpleLowered(p) ==
    LET lower == ToLowerCase(p.pattern)
        a == Includes(lower, "async")
        d == Includes(lower, "function") \/ Includes(lower, "def") \/ Includes(lower, "method")
        c == Includes(lower, "class")
        t == Includes(lower, "try") \/ Includes(lower, "catch")
        i == Includes(lower, "import")
        e == Includes(lower, "export")
    IN  [p EXCEPT !.isAsync = a, !.isDef = d, !.isClass = c,
                  !.isTry = t, !.isImport = i, !.isExport = e,
                  !.criteria = IF ~a /\ ~d /\ ~c /\ ~t /\ ~i /\ ~e
                               THEN TextMatchCriteria(lower) ELSE @]

\* a compileSimple that falls back to text matching whenever no construct
\* keyword is present, the keyword async or not
compileSimpleAsyncText(p) ==
    LET lower == ToLowerCase(p.pattern)
        a == Includes(lower, "async")
        d == Includes(lower, "function") \/ Includes(lower, "def") \/ Includes(lower, "method")
        c == Includes(lower, "class")
        t == Includes(lower, "try") \/ Includes(lower, "catch")
        i == Includes(lower, "import")
        e == Includes(lower, "export")
    IN  [p EXCEPT !.isAsync = a, !.isDef = d, !.isClass = c,
                  !.isTry = t, !.isImport = i, !.isExport = e,
                  !.criteria = IF ~d /\ ~c /\ ~t /\ ~i /\ ~e
                               THEN TextMatchCriteria(p.pattern) ELSE @]

compileSimple(p) ==
    LET lower == ToLowerCase(p.pattern)
        a == Includes(lower, "async")
        d == Includes(lower, "function") \/ Includes(lower, "def") \/ Includes(lower, "method")
        c == Includes(lower, "class")
        t == Includes(lower, "try") \/ Includes(lower, "catch")
        i == Includes(lower, "import")
        e == Includes(lower, "export")
    IN  [p EXCEPT !.isAsync = a, !.isDef = d, !.isClass = c,
                  !.isTry = t, !.isImport = i, !.isExport = e,
                  !.criteria = IF ~a /\ ~d /\ ~c /\ ~t /\ ~i /\ ~e
                               THEN TextMatchCriteria(p.pattern) ELSE @]

compilePattern(p) ==
    LET v == JSONParse(p.pattern)
    IN  [p EXCEPT !.criteria = IF v.kind = "fail" THEN TextMatchCriteria(p.pattern) ELSE v]

\* new ASTPattern(pattern, mode)
ASTPattern(patternText, searchMode) ==
    CASE searchMode = SIMPLE  -> compileSimple(NewPattern(patternText, searchMode))
      [] searchMode = PATTERN -> compilePattern(NewPattern(patternText, searchMode))
      [] OTHER -> NewPattern(patternText, searchMode)

isFunctionNode(type) == type \in FUNCTION_NODE_TYPES
isClassNode(type) == type \in CLASS_NODE_TYPES

hasAsyncModifier(tree, n, source) ==
    \/ \E i \in 1..Len(tree[n].children) : tree[tree[n].children[i]].type = "async"
    \/ Includes(Slice(NodeText(tree, n, source), 0, 10), "async")

NameChildTypes == {"identifier", "type_identifier", "property_identifier"}

\* ASTPattern.getNodeName: first identifier-typed child, else the "name" field
PatternNodeName(tree, n, source) ==
    LET ch == tree[n].children
        ids == {i \in 1..Len(ch) : tree[ch[i]].type \in NameChildTypes}
    IN  IF ids # {}
        THEN JStr(NodeText(tree, ch[CHOOSE i \in ids : \A j \in ids : i <= j], source))
        ELSE IF tree[n].nameField # 0
             THEN JStr(NodeText(tree, tree[n].nameField, source))
             ELSE Undefined

\* a node text cut after ten characters, as hasAsyncModifier reads it
getNodeTextHead(tree, n, source) ==
    Substring(source, tree[n].startIndex, Min(tree[n].endIndex, tree[n].startIndex + 10))

getNodeText(tree, n, source) == Substring(source, tree[n].startIndex, tree[n].endIndex)

\* a matchesSimple that accepts a node as soon as one requested construct fits
matchesSimpleAny(p, tree, n, source) ==
    LET nodeType == tree[n].type
    IN  IF p.isDef \/ p.isClass \/ p.isTry \/ p.isImport \/ p.isExport
        THEN \/ (p.isDef /\ isFunctionNode(nodeType))
             \/ (p.isClass /\ isClassNode(nodeType))
             \/ (p.isTry /\ nodeType \in TRY_NODE_TYPES)
             \/ (p.isImport /\ Includes(nodeType, "import"))
             \/ (p.isExport /\ Includes(nodeType, "export"))
        ELSE IF Truthy(Field(p.criteria, "textMatch"))
             THEN Includes(getNodeText(tree, n, source), ToStr(Field(p.criteria, "textMatch")))
             ELSE FALSE

matchesSimple(p, tree, n, source) ==
    LET nodeType == tree[n].type
    IN  IF p.isDef \/ p.isClass \/ p.isTry \/ p.isImport \/ p.isExport
        THEN /\ ~(p.isDef /\ ~isFunctionNode(nodeType))
             /\ ~(p.isClass /\ ~isClassNode(nodeType))
             /\ ~(p.isTry /\ nodeType \notin TRY_NODE_TYPES)
             /\ ~(p.isImport /\ ~Includes(nodeType, "import"))
             /\ ~(p.isExport /\ ~Includes(nodeType, "export"))
             /\ ~(p.isAsync /\ p.isDef /\ ~hasAsyncModifier(tree, n, source))
        ELSE IF Truthy(Field(p.criteria, "textMatch"))
             THEN Includes(getNodeText(tree, n, source), ToStr(Field(p.criteria, "textMatch")))
             ELSE FALSE

\* matchesPattern without its closing rule for a criteria object with no field
matchesPatternNoEmptyRule(p, tree, n, source) ==
    LET type == Field(p.criteria, "type")
        async == Field(p.criteria, "async")
        name == Field(p.criteria, "name")
        textMatch == Field(p.criteria, "textMatch")
    IN  /\ ~(Truthy(type) /\ JStr(tree[n].type) # type)
        /\ ~(async # Undefined /\ JBool(hasAsyncModifier(tree, n, source)) # async)
        /\ ~(Truthy(name) /\ PatternNodeName(tree, n, source) # name)
        /\ ~(Truthy(textMatch) /\ ~Includes(getNodeText(tree, n, source), ToStr(textMatch)))

matchesPattern(p, tree, n, source) ==
    LET type == Field(p.criteria, "type")
        async == Field(p.criteria, "async")
        name == Field(p.criteria, "name")
        textMatch == Field(p.criteria, "textMatch")
    IN  /\ ~(Truthy(type) /\ JStr(tree[n].type) # type)
        /\ ~(async # Undefined /\ JBool(hasAsyncModifier(tree, n, source)) # async)
        /\ ~(Truthy(name) /\ PatternNodeName(tree, n, source) # name)
        /\ ~(Truthy(textMatch) /\ ~Includes(getNodeText(tree, n, source), ToStr(textMatch)))
        /\ ~(~Truthy(type) /\ ~Truthy(async) /\ ~Truthy(name) /\ ~Truthy(textMatch))

\* ASTPattern.matches raises a TypeError when a property of null is read
MatchThrows(p) == p.mode = PATTERN /\ p.criteria.kind = "null"

\* ASTPattern.matches(node, source), when it does not raise
Matches(p, tree, n, source) ==
    CASE p.mode = SIMPLE  -> matchesSimple(p, tree, n, source)
      [] p.mode = PATTERN -> matchesPattern(p, tree, n, source)
      [] OTHER -> FALSE

(***************************************************************************)
(* ASTSearcher: per-file search (searcher.ts)                              *)
(***************************************************************************)
MAX_FILE_SIZE == 5 * 1024 * 1024
MAX_TEXT_LENGTH == 500

SKIP_DIRS ==
    {"node_modules", ".git", ".svn", ".hg", "__pycache__", ".pytest_cache",
     ".mypy_cache", "dist", "build", ".next", ".nuxt", "coverage", ".coverage",
     "venv", ".venv", "env", ".env"}

\* path.join(dir, entry)
Join(dir, entry) == dir \o "/" \o entry

\* path.relative(from, to) for a path to below from
Relative(from, to) ==
    IF StartsWith(to, from \o "/") THEN SubSeq(to, Len(from) + 2, Len(to)) ELSE to

\* a truncateText that keeps MAX_TEXT_LENGTH characters before the marker
truncateTextKeepAll(text) ==
    IF Len(text) <= MAX_TEXT_LENGTH THEN text
    ELSE Slice(text, 0, MAX_TEXT_LENGTH) \o "..."

truncateText(text) ==
    IF Len(text) <= MAX_TEXT_LENGTH THEN text
    ELSE Slice(text, 0, MAX_TEXT_LENGTH - 3) \o "..."

\* ASTSearcher.getNodeName: the "name" field, else the first identifier child
SearcherNodeName(tree, n, source) ==
    LET ch == tree[n].children
        ids == {i \in 1..Len(ch) : tree[ch[i]].type \in {"identifier", "type_identifier"}}
    IN  IF tree[n].nameField # 0
        THEN JStr(Substring(source, tree[tree[n].nameField].startIndex,
                                    tree[tree[n].nameField].endIndex))
        ELSE IF ids # {}
             THEN JStr(Substring(source, tree[ch[CHOOSE i \in ids : \A j \in ids : i <= j]].startIndex,
                                         tree[ch[CHOOSE i \in ids : \A j \in ids : i <= j]].endIndex))
             ELSE Undefined

RECURSIVE ContextFromNoBreak(_, _, _, _)
\* a getContext loop that goes on to the root and records every function-like
\* and class-like ancestor it passes, the outermost last
ContextFromNoBreak(tree, parent, source, context) ==
    IF parent = 0 THEN context
    ELSE IF isFunctionNode(tree[parent].type)
         THEN ContextFromNoBreak(tree, ParentOf(tree, parent), source,
                  [context EXCEPT !.parentFunction = SearcherNodeName(tree, parent, source)])
         ELSE IF isClassNode(tree[parent].type)
              THEN ContextFromNoBreak(tree, ParentOf(tree, parent), source,
                       [context EXCEPT !.parentClass = SearcherNodeName(tree, parent, source)])
              ELSE ContextFromNoBreak(tree, ParentOf(tree, parent), source, context)

RECURSIVE ContextFrom(_, _, _, _)
\* the loop of getContext, with parent the ancestor under inspection
ContextFrom(tree, parent, source, context) ==
    IF parent = 0 THEN context
    ELSE IF isFunctionNode(tree[parent].type)
         THEN [context EXCEPT !.parentFunction = SearcherNodeName(tree, parent, source)]
         ELSE IF isClassNode(tree[parent].type)
              THEN [context EXCEPT !.parentClass = SearcherNodeName(tree, parent, source)]
              ELSE ContextFrom(tree, ParentOf(tree, parent), source, context)

getContext(tree, n, source) ==
    ContextFrom(tree, ParentOf(tree, n), source,
                [nodeType |-> tree[n].type, parentFunction |-> Undefined, parentClass |-> Undefined])

createMatch(tree, n, source, filePath) ==
    [file     |-> Relative(RepoPath, filePath),
     line     |-> StartRow(source, tree[n].startIndex) + 1,
     column   |-> StartColumn(source, tree[n].startIndex),
     nodeType |-> tree[n].type,
     text     |-> truncateText(Substring(source, tree[n].startIndex, tree[n].endIndex)),
     context  |-> getContext(tree, n, source)]

RECURSIVE searchNode(_, _, _, _, _)
RECURSIVE searchChildren(_, _, _, _, _, _)
\* the matches pushed by searchNode(node, ...) and its recursive calls
searchNode(tree, n, source, p, filePath) ==
    (IF Matches(p, tree, n, source) THEN <<createMatch(tree, n, source, filePath)>> ELSE <<>>)
        \o searchChildren(tree, n, 1, source, p, filePath)
searchChildren(tree, n, i, source, p, filePath) ==
    IF i > Len(tree[n].children) THEN <<>>
    ELSE searchNode(tree, tree[n].children[i], source, p, filePath)
            \o searchChildren(tree, n, i + 1, source, p, filePath)

(***************************************************************************)
(* Snapshot of the directory tree under RepoPath                           *)
(***************************************************************************)
\* readdir(dir): the entries of a directory
ReadDirOf(dir) ==
    CASE dir = "/r"              -> <<"a.ts", "b.PY", "lib", ".git", "node_modules", ".github">>
      [] dir = "/r/lib"          -> <<"c.ts", "notes.md", "big.js", "dist">>
      [] dir = "/r/.git"         -> <<"x.ts">>
      [] dir = "/r/node_modules" -> <<"m.js">>
      [] dir = "/r/.github"      -> <<"w.js">>
      [] dir = "/r/lib/dist"     -> <<"d.js">>
      [] OTHER -> <<>>

Directories ==
    {"/r", "/r/lib", "/r/.git", "/r/node_modules", "/r/.github", "/r/lib/dist"}

\* stat(path): kind and size
StatOf(path) ==
    IF path \in Directories THEN [kind |-> "dir", size |-> 0]
    ELSE IF path = "/r/lib/big.js" THEN [kind |-> "file", size |-> MAX_FILE_SIZE + 1]
         ELSE [kind |-> "file", size |-> Len(FileSource(path))]

AllPaths ==
    UNION {{Join(d, ReadDirOf(d)[i]) : i \in 1..Len(ReadDirOf(d))} : d \in Directories}

\* the path functions over the paths of the snapshot, evaluated once:
\* detectLanguage(path), isSupported(path) and relative(repoPath, path)
LanguageAt == Table([path \in AllPaths |-> detectLanguage(path)])
SupportedAt == Table([path \in AllPaths |-> isSupported(path)])
RelativeAt == Table([path \in AllPaths |-> Relative(RepoPath, path)])

\* walkDirectory without its skip check: every entry is stat-ed
EntriesKeptAll ==
    Table([dir \in Directories |->
        LET entries == ReadDirOf(dir)
        IN  {Join(dir, entries[i]) : i \in 1..Len(entries)}])

\* walkDirectory: per directory, the full paths of the entries that pass the
\* skip check and are stat-ed
EntriesKept ==
    Table([dir \in Directories |->
        LET entries == ReadDirOf(dir)
        IN  {Join(dir, entries[i]) :
                i \in {k \in 1..Len(entries) :
                          ~(entries[k] \in SKIP_DIRS \/ StartsWith(entries[k], "."))}}])

RECURSIVE GlobMatch(_, _)
\* new Bun.Glob(glob).match(path) for globs made of literal characters, "*"
\* (any run of characters other than "/") and a leading "**/" (any number of
\* directories)
GlobMatch(glob, path) ==
    IF glob = "" THEN path = ""
    ELSE IF StartsWith(glob, "**/")
         THEN \/ GlobMatch(SubSeq(glob, 4, Len(glob)), path)
              \/ \E i \in 1..Len(path) :
                    /\ SubSeq(path, i, i) = "/"
                    /\ GlobMatch(glob, SubSeq(path, i + 1, Len(path)))
         ELSE IF Head(glob) = "*"
              THEN \/ GlobMatch(Tail(glob), path)
                   \/ (path # "" /\ Head(path) # "/" /\ GlobMatch(glob, Tail(path)))
              ELSE path # "" /\ Head(path) = Head(glob) /\ GlobMatch(Tail(glob), Tail(path))

\* an optional string argument that is not given; the code tests such
\* arguments by truthiness, which the empty string shares with undefined
Absent == ""

\* the file_pattern arguments of the requests
FilePatterns == {Absent, "*.ts", "**/*.ts", "*.PY"}

matchesFilePattern(filePath, glob) == GlobMatch(glob, Relative(RepoPath, filePath))

\* matchesFilePattern over the paths of the snapshot, evaluated once
GlobAt ==
    Table([glob \in FilePatterns \ {Absent} |->
        Table([path \in AllPaths |-> matchesFilePattern(path, glob)])])

(***************************************************************************)
(* State                                                                   *)
(***************************************************************************)
VARIABLES
    \* the arguments of the kit_ast_search tool call, the value of
    \* process.env.KIT_DEFAULT_PATH, and what validateAstSearchInputs returned
    args, env, validation,
    \* the request: ASTSearchOptions
    pattern, mode, filePattern, maxResults,
    \* the snapshot: per file "ok", "readError" (readFile rejects) or "nullTree"
    \* (parse returns null); the languages whose grammar cannot be loaded
    fault, grammarFails,
    \* the snapshot: the readdir and stat calls that are rejected
    ioFails,
    \* which search of the sequence is running, and the matches of the first
    run, firstMatches,
    \* the tool call: "received" (not yet validated) or "rejected"; then
    \* searchPattern: "discover", "process" or "settled"
    phase,
    \* walkDirectory: the readdir and stat calls in flight, the files pushed
    pendingReaddir, pendingStat, files,
    \* processInParallelChunks: offset of the batch, its tasks, the files in
    \* the order in which their tasks finished, the matches accumulated so far
    chunkStart, tasks, arrival, results,
    \* what searchPattern resolved with
    searchResult,
    \* executeAstSearch: whether the deadline fired, and what it returned
    timedOut, response,
    \* languages with a parser in the parser pool
    parsers,
    \* two searches at once: which of them the variables above belong to, and
    \* the request and local state of the other one, suspended at an await
    focus, other

searchVars ==
    <<args, env, validation, pattern, mode, filePattern, maxResults, fault, grammarFails, ioFails, run,
      firstMatches, phase, pendingReaddir, pendingStat, files, chunkStart, tasks, arrival, results,
      searchResult, timedOut, response, parsers, focus, other>>

\* the registry
VARIABLES
    \* per caller: the language asked for, where the call stands ("idle",
    \* "awaitInit", "awaitParser", "resolved", "rejected"), and
    \* the parser it received (0: none)
    callerLang, callerPc, callerParser,
    \* per caller: how many loads of its language had settled when it called
    callerEpoch,
    \* initParser: the module flag, and the number of Parser.init() calls
    initialized, initCalls,
    \* languagePool: cached grammar per language ("none": absent), loads in flight
    languagePool, languageLoading,
    \* parserPool: cached parser per language (0: absent), and per language the
    \* parser whose factory is in flight (0: none)
    parserPool, parserCreating,
    \* every Parser constructed: its grammar, the number of setLanguage calls
    \* made on it, and the language whose factory constructed it
    parserObjs,
    \* per language: Language.load calls made, and how many of them failed
    loadCalls, loadFailures

regVars ==
    <<callerLang, callerPc, callerParser, callerEpoch, initialized, initCalls, languagePool,
      languageLoading, parserPool, parserCreating, parserObjs,
      loadCalls, loadFailures>>

\* the walk of one tree
VARIABLES
    \* the pattern text and mode, and the file whose tree is walked
    mPattern, mMode, mFile,
    \* nodes still to visit (top first), nodes visited in order, matches pushed
    mStack, mSeen, mOut,
    \* whether ASTPattern.matches raised
    mThrew

matchVars == <<mPattern, mMode, mFile, mStack, mSeen, mOut, mThrew>>

vars == <<searchVars, regVars, matchVars>>

NoValue == [kind |-> "none"]

(***************************************************************************)
(* Requests and snapshots the search specification starts from             *)
(***************************************************************************)
\* searcher.ts:43 sets the batch size to 10; the model scales it down so
\* that the three candidate files of the snapshot span two batches
PARALLEL_CHUNK_SIZE == 2

SearchRequests ==
    {[pattern |-> "function", mode |-> SIMPLE],
     [pattern |-> "s",        mode |-> SIMPLE],
     [pattern |-> "{}",       mode |-> PATTERN]}

\* the readdir and stat calls that a snapshot can reject: the root or a
\* directory below it cannot be listed, a file or a directory cannot be stat-ed
IoFaults ==
    {[op |-> "readdir", path |-> RepoPath], [op |-> "readdir", path |-> "/r/lib"],
     [op |-> "stat", path |-> PathA], [op |-> "stat", path |-> "/r/lib"]}

\* the snapshots: a fault per file, a set of unloadable grammars and a set
\* of rejected readdir and stat calls
Snapshots ==
    {sn \in [fault : [ParsedFiles -> {"ok", "readError", "nullTree"}],
             grammarFails : SUBSET {"python", "typescript"},
             ioFails : SUBSET IoFaults] :
        Cardinality({x \in ParsedFiles : sn.fault[x] # "ok"})
            + Cardinality(sn.grammarFails) + Cardinality(sn.ioFails) <= MaxFaults}

(***************************************************************************)
(* executeAstSearch (kit-wrapper.ts) and searchPattern (searcher.ts)       *)
(***************************************************************************)
TimeoutErrorValue == [name |-> "TimeoutError", message |-> "AST search timed out"]

ERROR_MESSAGES(type) ==
    CASE type = "KitCommandFailed" -> "Kit command failed to execute."
      [] type = "Timeout" -> "Operation timed out (this may take longer on large repositories)."
      [] OTHER -> "Invalid input provided."

\* new KitError(type, details).toJSON()
KitError(type, details) ==
    [kind |-> "error", type |-> type, error |-> ERROR_MESSAGES(type), details |-> details]

\* the object searchPattern returns
SearchResultOf(matches) ==
    [kind |-> "result", count |-> Len(matches), matches |-> matches,
     pattern |-> pattern, mode |-> mode, path |-> RepoPath]

\* an onError callback that reports the failing file as an entry of the list
OnErrorMarker(filePath) ==
    <<[file |-> Relative(RepoPath, filePath), line |-> 1, column |-> 0, nodeType |-> "ERROR",
       text |-> "", context |-> [nodeType |-> "ERROR", parentFunction |-> Undefined,
                                 parentClass |-> Undefined]]>>

\* the onError callback searchPattern hands to processInParallelChunks
OnError(filePath) == <<>>

\* a call that hands over the default cap instead of the requested one
ChunkMaxResultsDefault == 100

\* the maxResults option searchPattern hands to processInParallelChunks
ChunkMaxResults == maxResults

Take(seq, k) == SubSeq(seq, 1, Min(k, Len(seq)))

RECURSIVE Flatten(_)
Flatten(seqs) == IF seqs = <<>> THEN <<>> ELSE Head(seqs) \o Flatten(Tail(seqs))

\* a merge that appends the results of a batch in the order of completion
MergeChunkByArrival(res, ts, arr) ==
    LET pos(f) == CHOOSE k \in 1..Len(arr) : arr[k] = f
        rank(i) == Cardinality({j \in 1..Len(ts) : pos(ts[j].file) < pos(ts[i].file)}) + 1
    IN  res \o Flatten([r \in 1..Len(ts) |-> ts[CHOOSE i \in 1..Len(ts) : rank(i) = r].out])

\* processInParallelChunks: the results of a finished batch are appended in
\* the order of its items
MergeChunk(res, ts, arr) == res \o Flatten([i \in 1..Len(ts) |-> ts[i].out])

\* a loop that never looks at the cap between two batches
CapReachedNever(res) == FALSE

\* processInParallelChunks: no further batch once the cap is reached
CapReached(res) == Len(res) >= ChunkMaxResults

\* processInParallelChunks: the list it resolves with
CapSlice(res) == Take(res, ChunkMaxResults)

\* a catch block that throws the error on: executeAstSearch rejects
CatchToResponseRethrow(error) == [kind |-> "rejected", reason |-> error.message]

\* a catch block that hands back what the batches had produced so far
CatchToResponsePartial(error) == SearchResultOf(CapSlice(results))

\* the catch block of executeAstSearch
CatchToResponse(error) == KitError("KitCommandFailed", error.message)

\* searchFile up to its first await: detectLanguage, then getParser
NewTask(filePath) ==
    [file |-> filePath,
     pc   |-> IF LanguageAt[filePath] = NoLanguage THEN "done" ELSE "getParser",
     out  |-> <<>>]

\* the loop of processInParallelChunks at offset start with res accumulated:
\* start the next batch, or resolve searchPattern and, unless the deadline
\* has fired, executeAstSearch
BeginChunkOrFinish(fs, start, res) ==
    IF start < Len(fs) /\ ~CapReached(res)
    THEN /\ phase' = "process"
         /\ chunkStart' = start
         /\ tasks' = [i \in 1..Min(PARALLEL_CHUNK_SIZE, Len(fs) - start) |-> NewTask(fs[start + i])]
         /\ results' = res
         /\ UNCHANGED <<searchResult, response>>
    ELSE /\ phase' = "settled"
         /\ chunkStart' = start
         /\ tasks' = <<>>
         /\ results' = res
         /\ searchResult' = SearchResultOf(CapSlice(res))
         /\ response' = IF timedOut THEN response ELSE SearchResultOf(CapSlice(res))

\* walkDirectory resumes whoever awaits it once no readdir or stat is in flight
AfterWalkStep(pr, ps, fs) ==
    /\ pendingReaddir' = pr
    /\ pendingStat' = ps
    /\ files' = fs
    /\ IF pr = {} /\ ps = {}
       THEN BeginChunkOrFinish(fs, 0, <<>>)
       ELSE UNCHANGED <<phase, chunkStart, tasks, results, searchResult, response>>

\* a walkDirectory whose readdir rejection is not caught: searchPattern
\* rejects and executeAstSearch answers with an error
ReaddirResolveThrows(dir) ==
    /\ phase = "discover"
    /\ dir \in pendingReaddir
    /\ IF [op |-> "readdir", path |-> dir] \in ioFails
       THEN /\ phase' = "settled"
            /\ pendingReaddir' = {} /\ pendingStat' = {}
            /\ response' = IF timedOut THEN response
                           ELSE KitError("KitCommandFailed", "ENOENT: no such file or directory")
            /\ UNCHANGED <<files, chunkStart, tasks, results, searchResult>>
       ELSE AfterWalkStep(pendingReaddir \ {dir}, pendingStat \cup EntriesKept[dir], files)
    /\ UNCHANGED <<args, env, validation, focus, other, pattern, mode, filePattern, maxResults,
                   fault, grammarFails, ioFails, run, firstMatches, arrival, timedOut, parsers>>
    /\ UNCHANGED <<regVars, matchVars>>

\* walkDirectory: readdir(dir) settles: every entry that is not skipped is
\* stat-ed; a rejection is caught and the directory contributes nothing
ReaddirResolve(dir) ==
    /\ phase = "discover"
    /\ dir \in pendingReaddir
    /\ IF [op |-> "readdir", path |-> dir] \in ioFails
       THEN AfterWalkStep(pendingReaddir \ {dir}, pendingStat, files)
       ELSE AfterWalkStep(pendingReaddir \ {dir}, pendingStat \cup EntriesKept[dir], files)
    /\ UNCHANGED <<args, env, validation, focus, other, pattern, mode, filePattern, maxResults,
                   fault, grammarFails, ioFails, run, firstMatches, arrival, timedOut, parsers>>
    /\ UNCHANGED <<regVars, matchVars>>

\* a walkDirectory that pushes a file whatever the file pattern
PassesFilterAlways(fullPath) == TRUE

\* walkDirectory: the file pattern, when one is given, matches the file
PassesFilter(fullPath) == filePattern = Absent \/ GlobAt[filePattern][fullPath]

\* walkDirectory: stat(fullPath) settles
StatResolve(fullPath) ==
    /\ phase = "discover"
    /\ fullPath \in pendingStat
    /\ LET stats == StatOf(fullPath)
       IN  IF [op |-> "stat", path |-> fullPath] \in ioFails
           THEN AfterWalkStep(pendingReaddir, pendingStat \ {fullPath}, files)
           ELSE IF stats.kind = "dir"
           THEN AfterWalkStep(pendingReaddir \cup {fullPath}, pendingStat \ {fullPath}, files)
           ELSE IF stats.size > MAX_FILE_SIZE \/ ~SupportedAt[fullPath]
                        \/ ~PassesFilter(fullPath)
                THEN AfterWalkStep(pendingReaddir, pendingStat \ {fullPath}, files)
                ELSE AfterWalkStep(pendingReaddir, pendingStat \ {fullPath},
                                   Append(files, fullPath))
    /\ UNCHANGED <<args, env, validation, focus, other, pattern, mode, filePattern, maxResults,
                   fault, grammarFails, ioFails, run, firstMatches, arrival, timedOut, parsers>>
    /\ UNCHANGED <<regVars, matchVars>>

\* a task of the batch has settled: when it was the last one, merge the batch
AfterTaskStep(ts, arr) ==
    /\ arrival' = arr
    /\ IF \A i \in 1..Len(ts) : ts[i].pc = "done"
       THEN BeginChunkOrFinish(files, chunkStart + PARALLEL_CHUNK_SIZE, MergeChunk(results, ts, arr))
       ELSE /\ tasks' = ts
            /\ UNCHANGED <<phase, chunkStart, results, searchResult, response>>

\* searchFile: getParser(language) settles; a rejection goes to onError
GetParserResolve(i) ==
    /\ phase = "process"
    /\ i \in 1..Len(tasks)
    /\ tasks[i].pc = "getParser"
    /\ LET language == LanguageAt[tasks[i].file]
       IN  IF language \in grammarFails
           THEN /\ AfterTaskStep([tasks EXCEPT ![i].pc = "done", ![i].out = OnError(tasks[i].file)],
                                 Append(arrival, tasks[i].file))
                /\ UNCHANGED parsers
           ELSE /\ AfterTaskStep([tasks EXCEPT ![i].pc = "readFile"], arrival)
                /\ parsers' = parsers \cup {language}
    /\ UNCHANGED <<args, env, validation, focus, other, pattern, mode, filePattern, maxResults,
                   fault, grammarFails, ioFails, run, firstMatches, pendingReaddir, pendingStat,
                   files, timedOut>>
    /\ UNCHANGED <<regVars, matchVars>>

\* searchFile from the parse on: the matches searchNode pushes when it is
\* called on the root of the file's tree, for every request and file
RootWalk ==
    Table([req \in SearchRequests |->
        Table([filePath \in ParsedFiles |->
            searchNode(FileTree(filePath), RootNode, FileSource(filePath),
                       ASTPattern(req.pattern, req.mode), filePath)])])

\* whether pattern.matches raises under the request
RequestThrows ==
    Table([req \in SearchRequests |-> MatchThrows(ASTPattern(req.pattern, req.mode))])

\* the request of the running search
Request == [pattern |-> pattern, mode |-> mode]

\* what searchFile produces once readFile has settled: parse and walk the tree
SearchFileOutcome(filePath) ==
    IF fault[filePath] = "readError" THEN OnError(filePath)
    ELSE IF fault[filePath] = "nullTree" THEN <<>>
         ELSE IF RequestThrows[Request] THEN OnError(filePath)
              ELSE RootWalk[Request][filePath]

\* searchFile: readFile(filePath) settles
ReadFileResolve(i) ==
    /\ phase = "process"
    /\ i \in 1..Len(tasks)
    /\ tasks[i].pc = "readFile"
    /\ AfterTaskStep([tasks EXCEPT ![i].pc = "done", ![i].out = SearchFileOutcome(tasks[i].file)],
                     Append(arrival, tasks[i].file))
    /\ UNCHANGED <<args, env, validation, focus, other, pattern, mode, filePattern, maxResults,
                   fault, grammarFails, ioFails, run, firstMatches, pendingReaddir, pendingStat,
                   files, timedOut, parsers>>
    /\ UNCHANGED <<regVars, matchVars>>

\* executeAstSearch: the deadline of withTimeout fires before searchPattern
\* has resolved; the catch block builds the response
Timeout ==
    /\ phase \notin {"received", "rejected"}
    /\ ~timedOut
    /\ response = NoValue
    /\ timedOut' = TRUE
    /\ response' = CatchToResponse(TimeoutErrorValue)
    /\ UNCHANGED <<args, env, validation, focus, other, pattern, mode, filePattern, maxResults,
                   fault, grammarFails, ioFails, run, firstMatches, phase, pendingReaddir,
                   pendingStat, files, chunkStart, tasks, arrival, results, searchResult,
                   parsers>>
    /\ UNCHANGED <<regVars, matchVars>>

\* the same request is issued a second time once the first search has ended
SearchAgain ==
    /\ phase = "settled"
    /\ run = 1
    /\ run' = 2
    /\ firstMatches' = searchResult.matches
    /\ phase' = "discover"
    /\ pendingReaddir' = {RepoPath}
    /\ pendingStat' = {}
    /\ files' = <<>>
    /\ chunkStart' = 0
    /\ tasks' = <<>>
    /\ arrival' = <<>>
    /\ results' = <<>>
    /\ searchResult' = NoValue
    /\ timedOut' = FALSE
    /\ response' = NoValue
    /\ UNCHANGED <<args, env, validation, focus, other, pattern, mode, filePattern, maxResults,
                   fault, grammarFails, ioFails, parsers>>
    /\ UNCHANGED <<regVars, matchVars>>

(***************************************************************************)
(* The kit_ast_search tool (mcp/index.ts) and validateAstSearchInputs       *)
(* (validators.ts).  The arguments are [pattern, mode, file_pattern,        *)
(* max_results]; max_results is [given, value].                             *)
(***************************************************************************)
\* the calls of the tool: the pattern and mode arguments
ToolRequests ==
    {[pattern |-> "function", mode |-> Absent],
     [pattern |-> " s ",      mode |-> "simple"],
     [pattern |-> "{}\n",     mode |-> "pattern"],
     [pattern |-> "function", mode |-> "SIMPLE"],
     [pattern |-> "function", mode |-> "invalid"],
     [pattern |-> "",         mode |-> Absent],
     [pattern |-> "  ",       mode |-> "simple"],
     [pattern |-> "\t\n",     mode |-> "pattern"],
     [pattern |-> "",         mode |-> "invalid"]}

\* the max_results arguments of the calls: not given, or an integer
ToolMaxResults ==
    {[given |-> FALSE, value |-> 0], [given |-> TRUE, value |-> 0],
     [given |-> TRUE, value |-> 2], [given |-> TRUE, value |-> 501]}

\* a file_pattern argument that validateGlob refuses
UnsafeGlob == "*.ts; rm -rf /"

\* the file_pattern arguments of the calls
ToolFilePatterns == FilePatterns \cup {UnsafeGlob}

\* process.cwd()
Cwd == RepoPath

\* the path arguments of the calls: not given, the repository, a path that
\* does not exist, a file
ToolPaths == {Absent, RepoPath, "/nonexistent/path", PathA}

\* the values of process.env.KIT_DEFAULT_PATH: not set, the repository, a
\* path that does not exist
EnvPaths == {Absent, RepoPath, "/nonexistent/path"}

RECURSIVE JoinWith(_, _)
\* Array.prototype.join(sep)
JoinWith(strs, sep) ==
    IF strs = <<>> THEN ""
    ELSE IF Len(strs) = 1 THEN strs[1]
         ELSE strs[1] \o sep \o JoinWith(Tail(strs), sep)

\* a pattern test that does not trim
PatternIsEmptyUntrimmed(text) == text = ""

\* validateAstSearchInputs: !inputs.pattern || inputs.pattern.trim() === ''
PatternIsEmpty(text) == text = "" \/ Trim(text) = ""

\* validatePositiveInt for a value that is not given or an integer
validatePositiveInt(value, min, max, defaultValue) ==
    IF ~value.given THEN [valid |-> TRUE, value |-> defaultValue]
    ELSE [valid |-> value.value >= min /\ value.value <= max, value |-> value.value]

\* validateGlob as validateAstSearchInputs uses it: the glob is refused or
\* returned as it is
validateGlob(glob) ==
    IF glob = UnsafeGlob THEN [valid |-> FALSE, error |-> "Glob pattern contains invalid characters"]
    ELSE [valid |-> TRUE, value |-> glob]

\* getDefaultKitPath: process.env[KIT_DEFAULT_PATH_ENV] || process.cwd()
getDefaultKitPath(envPath) == IF envPath # Absent THEN envPath ELSE Cwd

\* validatePath with its default options, for paths that are normalised
validatePath(inputPath) ==
    IF inputPath = "" \/ Trim(inputPath) = ""
    THEN [valid |-> FALSE, error |-> "Path cannot be empty"]
    ELSE IF inputPath \notin (Directories \cup AllPaths)
    THEN [valid |-> FALSE, error |-> "Path does not exist: " \o inputPath]
    ELSE IF StatOf(inputPath).kind # "dir"
    THEN [valid |-> FALSE, error |-> "Path is not a directory: " \o inputPath]
    ELSE [valid |-> TRUE, path |-> inputPath]

\* validateAstSearchInputs returning at the first failing input
validateAstSearchInputsFirst(inputs, envPath) ==
    LET lowerMode == ToLowerCase(IF inputs.mode # Absent THEN inputs.mode ELSE "simple")
        patternResult == validateGlob(inputs.filePattern)
        pathResult == validatePath(IF inputs.path # Absent THEN inputs.path
                                   ELSE getDefaultKitPath(envPath))
        maxResultsResult == validatePositiveInt(inputs.maxResults, 1, 500, 100)
    IN  IF PatternIsEmpty(inputs.pattern)
        THEN [valid |-> FALSE, errors |-> <<"Pattern cannot be empty">>]
        ELSE IF lowerMode \notin {"simple", "pattern"}
        THEN [valid |-> FALSE,
              errors |-> <<"Invalid mode: " \o inputs.mode \o ". Valid modes: simple, pattern">>]
        ELSE IF inputs.filePattern # Absent /\ ~patternResult.valid
        THEN [valid |-> FALSE, errors |-> <<"File pattern: " \o patternResult.error>>]
        ELSE IF ~pathResult.valid
        THEN [valid |-> FALSE, errors |-> <<pathResult.error>>]
        ELSE IF ~maxResultsResult.valid
        THEN [valid |-> FALSE, errors |-> <<"maxResults must be between 1 and 500">>]
        ELSE [valid |-> TRUE, errors |-> <<>>,
              validated |-> [pattern     |-> Trim(inputs.pattern),
                             mode        |-> lowerMode,
                             filePattern |-> inputs.filePattern,
                             path        |-> pathResult.path,
                             maxResults  |-> maxResultsResult.value]]

\* validateAstSearchInputs; envPath is process.env.KIT_DEFAULT_PATH
validateAstSearchInputs(inputs, envPath) ==
    LET patternErrors ==
            IF PatternIsEmpty(inputs.pattern) THEN <<"Pattern cannot be empty">> ELSE <<>>
        lowerMode == ToLowerCase(IF inputs.mode # Absent THEN inputs.mode ELSE "simple")
        modeErrors ==
            IF lowerMode \notin {"simple", "pattern"}
            THEN <<"Invalid mode: " \o inputs.mode \o ". Valid modes: simple, pattern">>
            ELSE <<>>
        patternResult == validateGlob(inputs.filePattern)
        globErrors ==
            IF inputs.filePattern # Absent /\ ~patternResult.valid
            THEN <<"File pattern: " \o patternResult.error>>
            ELSE <<>>
        validatedFilePattern ==
            IF inputs.filePattern # Absent THEN patternResult.value ELSE Absent
        pathResult == validatePath(IF inputs.path # Absent THEN inputs.path
                                   ELSE getDefaultKitPath(envPath))
        pathErrors == IF ~pathResult.valid THEN <<pathResult.error>> ELSE <<>>
        maxResultsResult == validatePositiveInt(inputs.maxResults, 1, 500, 100)
        maxErrors ==
            IF ~maxResultsResult.valid
            THEN <<"maxResults must be between 1 and 500">>
            ELSE <<>>
        errors == patternErrors \o modeErrors \o globErrors \o pathErrors \o maxErrors
    IN  IF Len(errors) > 0
        THEN [valid |-> FALSE, errors |-> errors]
        ELSE [valid |-> TRUE, errors |-> <<>>,
              validated |-> [pattern     |-> Trim(inputs.pattern),
                             mode        |-> lowerMode,
                             filePattern |-> validatedFilePattern,
                             path        |-> pathResult.path,
                             maxResults  |-> maxResultsResult.value]]

\* the handler of kit_ast_search: the arguments are validated; when they are
\* not valid the handler throws, otherwise it calls executeAstSearch, which
\* constructs the searcher on the validated path (the repository, for every
\* valid call made here) and starts searchPattern: the pattern is compiled
\* and walkDirectory(repoPath) issues its readdir
KitAstSearch ==
    /\ phase = "received"
    /\ LET result == validateAstSearchInputs(
                             [pattern |-> args.pattern, mode |-> args.mode,
                              filePattern |-> args.file_pattern,
                              path |-> args.path,
                              maxResults |-> args.max_results], env)
       IN  /\ validation' = result
           /\ IF ~result.valid
              THEN /\ phase' = "rejected"
                   /\ response' = [kind |-> "error",
                                   message |-> JoinWith(result.errors, "; ")]
                   /\ UNCHANGED <<pattern, mode, filePattern, maxResults, pendingReaddir>>
              ELSE /\ result.validated.path = RepoPath
                   /\ pattern' = result.validated.pattern
                   /\ mode' = IF result.validated.mode = "pattern" THEN PATTERN ELSE SIMPLE
                   /\ filePattern' = result.validated.filePattern
                   /\ maxResults' = result.validated.maxResults
                   /\ phase' = "discover"
                   /\ pendingReaddir' = {RepoPath}
                   /\ UNCHANGED response
    /\ UNCHANGED <<args, env, focus, other, fault, grammarFails, ioFails, run, firstMatches,
                   pendingStat, files, chunkStart, tasks, arrival, results, searchResult,
                   timedOut, parsers>>
    /\ UNCHANGED <<regVars, matchVars>>

(***************************************************************************)
(* Two calls of executeAstSearch at once.  Each call constructs its own     *)
(* ASTSearcher and its own ASTPattern, and files, matches and the batch     *)
(* are locals of its searchPattern; the event loop runs one continuation    *)
(* at a time, of either call.                                               *)
(***************************************************************************)
\* the requests of the two calls
PairRequests ==
    {[pattern |-> "function", mode |-> SIMPLE, filePattern |-> "**/*.ts", maxResults |-> 1],
     [pattern |-> "s", mode |-> SIMPLE, filePattern |-> Absent, maxResults |-> 100]}

\* the request and the locals of the call the variables belong to
Locals ==
    [pattern |-> pattern, mode |-> mode, filePattern |-> filePattern,
     maxResults |-> maxResults, phase |-> phase,
     pendingReaddir |-> pendingReaddir, pendingStat |-> pendingStat, files |-> files,
     chunkStart |-> chunkStart, tasks |-> tasks, arrival |-> arrival,
     results |-> results, searchResult |-> searchResult,
     timedOut |-> timedOut, response |-> response]

\* the locals of a call that has just been made: walkDirectory has issued
\* its readdir
StartedCall(req) ==
    [pattern |-> req.pattern, mode |-> req.mode, filePattern |-> req.filePattern,
     maxResults |-> req.maxResults, phase |-> "discover",
     pendingReaddir |-> {RepoPath}, pendingStat |-> {}, files |-> <<>>,
     chunkStart |-> 0, tasks |-> <<>>, arrival |-> <<>>,
     results |-> <<>>, searchResult |-> NoValue,
     timedOut |-> FALSE, response |-> NoValue]

\* a change of call in which the candidate list stays where it is, as if
\* both calls pushed to one list
SwitchSharedFiles ==
    /\ other # NoValue
    /\ focus' = 3 - focus
    /\ other' = Locals
    /\ pattern' = other.pattern /\ mode' = other.mode
    /\ filePattern' = other.filePattern /\ maxResults' = other.maxResults
    /\ phase' = other.phase
    /\ pendingReaddir' = other.pendingReaddir /\ pendingStat' = other.pendingStat
    /\ files' = files
    /\ chunkStart' = other.chunkStart /\ tasks' = other.tasks
    /\ arrival' = other.arrival /\ results' = other.results
    /\ searchResult' = other.searchResult
    /\ timedOut' = other.timedOut /\ response' = other.response
    /\ UNCHANGED <<args, env, validation, fault, grammarFails, ioFails, run, firstMatches, parsers>>
    /\ UNCHANGED <<regVars, matchVars>>

\* the event loop turns to a continuation of the other call: its request and
\* locals come into play, those of the running call are kept for later; the
\* parser pool is the same for both
Switch ==
    /\ other # NoValue
    /\ focus' = 3 - focus
    /\ other' = Locals
    /\ pattern' = other.pattern /\ mode' = other.mode
    /\ filePattern' = other.filePattern /\ maxResults' = other.maxResults
    /\ phase' = other.phase
    /\ pendingReaddir' = other.pendingReaddir /\ pendingStat' = other.pendingStat
    /\ files' = other.files
    /\ chunkStart' = other.chunkStart /\ tasks' = other.tasks
    /\ arrival' = other.arrival /\ results' = other.results
    /\ searchResult' = other.searchResult
    /\ timedOut' = other.timedOut /\ response' = other.response
    /\ UNCHANGED <<args, env, validation, fault, grammarFails, ioFails, run, firstMatches, parsers>>
    /\ UNCHANGED <<regVars, matchVars>>

(***************************************************************************)
(* Language registry: initParser, getParser, loadLanguage (languages.ts)   *)
(* Callers 1..NumCallers each call getParser once, concurrently.           *)
(***************************************************************************)
Callers == 1..NumCallers
CallerLanguages == {"typescript", "python"}

\* the grammar Language.load yields for a language
GrammarOf(language) == "grammar:" \o language

\* a factory that reconfigures one shared Parser instead of constructing one
AllocParserShared(objs, language) ==
    IF objs = <<>>
    THEN [objs |-> <<[grammar |-> "none", setLanguageCalls |-> 0, madeFor |-> language]>>, id |-> 1]
    ELSE [objs |-> objs, id |-> 1]

\* new Parser() inside the factory of getParser: a fresh instance
AllocParser(objs, language) ==
    [objs |-> Append(objs, [grammar |-> "none", setLanguageCalls |-> 0, madeFor |-> language]),
     id   |-> Len(objs) + 1]

\* the loads of a language that have settled: the failures and the success
SettledLoads(language) ==
    loadFailures[language] + (IF languagePool[language] # "none" THEN 1 ELSE 0)

\* a pool that looks at its cache only and never joins a creation in flight
ParserInFlightIgnored(language) == FALSE

\* ResourcePool.getOrCreate joins a creation that is in flight for the key
ParserInFlight(language) == parserCreating[language] # 0

\* getParser after initParser: parserPool.getOrCreate(language, factory).  A
\* cached parser is returned, a creation in flight is joined, and otherwise
\* the factory runs to its await: new Parser(), then loadLanguage, whose
\* languagePool.getOrCreate returns the cached grammar (and the factory
\* finishes with setLanguage) or calls Language.load
GetOrCreateParser(c) ==
    LET l == callerLang[c]
        a == AllocParser(parserObjs, l)
    IN  IF parserPool[l] # 0
        THEN /\ callerPc' = [callerPc EXCEPT ![c] = "resolved"]
             /\ callerParser' = [callerParser EXCEPT ![c] = parserPool[l]]
             /\ UNCHANGED <<languageLoading, parserPool, parserCreating, parserObjs, loadCalls>>
        ELSE IF ParserInFlight(l)
             THEN /\ callerPc' = [callerPc EXCEPT ![c] = "awaitParser"]
                  /\ UNCHANGED <<callerParser, languageLoading, parserPool, parserCreating,
                                 parserObjs, loadCalls>>
             ELSE IF languagePool[l] # "none"
                  THEN /\ parserObjs' = [a.objs EXCEPT ![a.id] =
                                            [@ EXCEPT !.grammar = languagePool[l],
                                                      !.setLanguageCalls = @ + 1]]
                       /\ parserPool' = [parserPool EXCEPT ![l] = a.id]
                       /\ callerPc' = [callerPc EXCEPT ![c] = "resolved"]
                       /\ callerParser' = [callerParser EXCEPT ![c] = a.id]
                       /\ UNCHANGED <<languageLoading, parserCreating, loadCalls>>
                  ELSE /\ callerPc' = [callerPc EXCEPT ![c] = "awaitParser"]
                       /\ parserObjs' = a.objs
                       /\ parserCreating' = [parserCreating EXCEPT ![l] = a.id]
                       /\ IF l \in languageLoading
                          THEN UNCHANGED <<languageLoading, loadCalls>>
                          ELSE /\ languageLoading' = languageLoading \cup {l}
                               /\ loadCalls' = [loadCalls EXCEPT ![l] = @ + 1]
                       /\ UNCHANGED <<callerParser, parserPool>>

\* getParser is called: initParser reads the flag; when it is set the call
\* goes on to the parser pool, otherwise Parser.init() is called and awaited
GetParserCall(c) ==
    /\ callerPc[c] = "idle"
    /\ callerEpoch' = [callerEpoch EXCEPT ![c] = SettledLoads(callerLang[c])]
    /\ IF initialized
       THEN /\ GetOrCreateParser(c)
            /\ UNCHANGED initCalls
       ELSE /\ callerPc' = [callerPc EXCEPT ![c] = "awaitInit"]
            /\ initCalls' = initCalls + 1
            /\ UNCHANGED <<callerParser, languageLoading, parserPool, parserCreating,
                           parserObjs, loadCalls>>
    /\ UNCHANGED <<callerLang, initialized, languagePool, loadFailures>>
    /\ UNCHANGED <<searchVars, matchVars>>

\* initParser: Parser.init() resolves, the flag is set and the call goes on
\* to the parser pool; or it rejects and getParser rejects
InitResolve(c, ok) ==
    /\ callerPc[c] = "awaitInit"
    /\ IF ok
       THEN /\ initialized' = TRUE
            /\ GetOrCreateParser(c)
       ELSE /\ callerPc' = [callerPc EXCEPT ![c] = "rejected"]
            /\ UNCHANGED <<initialized, callerParser, languageLoading, parserPool,
                           parserCreating, parserObjs, loadCalls>>
    /\ UNCHANGED <<callerLang, callerEpoch, initCalls, languagePool, loadFailures>>
    /\ UNCHANGED <<searchVars, matchVars>>

\* loadLanguage: Language.load settles.  On success the grammar is cached,
\* the factory of the parser calls setLanguage, the pool caches the parser
\* and every call awaiting it receives it.  On failure nothing is cached, the
\* factory rejects, and so does every getParser call that awaits it
LoadResolve(l, ok) ==
    /\ l \in languageLoading
    /\ languageLoading' = languageLoading \ {l}
    /\ IF ok
       THEN /\ languagePool' = [languagePool EXCEPT ![l] = GrammarOf(l)]
            /\ IF parserCreating[l] # 0
               THEN /\ parserObjs' = [parserObjs EXCEPT ![parserCreating[l]] =
                                         [@ EXCEPT !.grammar = GrammarOf(l),
                                                   !.setLanguageCalls = @ + 1]]
                    /\ parserPool' = [parserPool EXCEPT ![l] = parserCreating[l]]
                    /\ callerPc' = [c \in Callers |->
                                      IF callerPc[c] = "awaitParser" /\ callerLang[c] = l
                                      THEN "resolved" ELSE callerPc[c]]
                    /\ callerParser' = [c \in Callers |->
                                          IF callerPc[c] = "awaitParser" /\ callerLang[c] = l
                                          THEN parserCreating[l] ELSE callerParser[c]]
               ELSE UNCHANGED <<parserObjs, parserPool, callerPc, callerParser>>
            /\ parserCreating' = [parserCreating EXCEPT ![l] = 0]
            /\ UNCHANGED loadFailures
       ELSE /\ loadFailures' = [loadFailures EXCEPT ![l] = @ + 1]
            /\ parserCreating' = [parserCreating EXCEPT ![l] = 0]
            /\ callerPc' = [c \in Callers |->
                              IF callerPc[c] = "awaitParser" /\ callerLang[c] = l
                              THEN "rejected" ELSE callerPc[c]]
            /\ UNCHANGED <<languagePool, parserObjs, parserPool, callerParser>>
    /\ UNCHANGED <<callerLang, callerEpoch, initialized, initCalls, loadCalls>>
    /\ UNCHANGED <<searchVars, matchVars>>

(***************************************************************************)
(* The walk of one tree with one pattern: searchNode with an explicit      *)
(* stack, one node per step                                                *)
(***************************************************************************)
MatchPatterns ==
    {"{}", "{ }", "{\"type\":\"class_declaration\"}", "{\"async\":false}",
     "{\"async\":true}", "{\"name\":\"K\"}", "{\"name\":\"b\"}", "{\"textMatch\":\"try\"}", "null", "5",
     "K", "function", "async function", "async", "class", "import", "export class",
     "Try", "os", "aa", ""}

\* a searchNode that does not recurse into the children of a node it matched
VisitNodePruned ==
    /\ mStack # <<>>
    /\ ~mThrew
    /\ LET n == Head(mStack)
           tree == FileTree(mFile)
           source == FileSource(mFile)
           p == ASTPattern(mPattern, mMode)
       IN  IF MatchThrows(p)
           THEN /\ mThrew' = TRUE
                /\ UNCHANGED <<mStack, mSeen, mOut>>
           ELSE /\ mOut' = IF Matches(p, tree, n, source)
                           THEN Append(mOut, createMatch(tree, n, source, mFile))
                           ELSE mOut
                /\ mSeen' = Append(mSeen, n)
                /\ mStack' = IF Matches(p, tree, n, source)
                             THEN Tail(mStack)
                             ELSE tree[n].children \o Tail(mStack)
                /\ UNCHANGED mThrew
    /\ UNCHANGED <<mPattern, mMode, mFile>>
    /\ UNCHANGED <<searchVars, regVars>>

\* searchNode(node, ...) for the node on top of the stack: test it, push a
\* match, then walk its children left to right
VisitNode ==
    /\ mStack # <<>>
    /\ ~mThrew
    /\ LET n == Head(mStack)
           tree == FileTree(mFile)
           source == FileSource(mFile)
           p == ASTPattern(mPattern, mMode)
       IN  IF MatchThrows(p)
           THEN /\ mThrew' = TRUE
                /\ UNCHANGED <<mStack, mSeen, mOut>>
           ELSE /\ mOut' = IF Matches(p, tree, n, source)
                           THEN Append(mOut, createMatch(tree, n, source, mFile))
                           ELSE mOut
                /\ mSeen' = Append(mSeen, n)
                /\ mStack' = tree[n].children \o Tail(mStack)
                /\ UNCHANGED mThrew
    /\ UNCHANGED <<mPattern, mMode, mFile>>
    /\ UNCHANGED <<searchVars, regVars>>

(***************************************************************************)
(* Initial states                                                          *)
(***************************************************************************)
SearchIdle ==
    /\ args = NoValue /\ env = Absent /\ validation = NoValue
    /\ pattern = "" /\ mode = SIMPLE /\ filePattern = Absent /\ maxResults = 1
    /\ fault = [f \in ParsedFiles |-> "ok"] /\ grammarFails = {} /\ ioFails = {}
    /\ run = 1 /\ firstMatches = <<>>
    /\ phase = "settled"
    /\ pendingReaddir = {} /\ pendingStat = {} /\ files = <<>>
    /\ chunkStart = 0 /\ tasks = <<>> /\ arrival = <<>> /\ results = <<>>
    /\ searchResult = NoValue /\ timedOut = FALSE /\ response = NoValue
    /\ parsers = {}
    /\ focus = 1 /\ other = NoValue

RegIdle ==
    /\ callerLang = [c \in Callers |-> "typescript"]
    /\ callerPc = [c \in Callers |-> "resolved"]
    /\ callerParser = [c \in Callers |-> 0]
    /\ callerEpoch = [c \in Callers |-> 0]
    /\ initialized = FALSE /\ initCalls = 0
    /\ languagePool = [l \in SUPPORTED_LANGUAGES |-> "none"]
    /\ languageLoading = {}
    /\ parserPool = [l \in SUPPORTED_LANGUAGES |-> 0]
    /\ parserCreating = [l \in SUPPORTED_LANGUAGES |-> 0]
    /\ parserObjs = <<>>
    /\ loadCalls = [l \in SUPPORTED_LANGUAGES |-> 0]
    /\ loadFailures = [l \in SUPPORTED_LANGUAGES |-> 0]

MatchIdle ==
    /\ mPattern = "" /\ mMode = SIMPLE /\ mFile = PathA
    /\ mStack = <<>> /\ mSeen = <<>> /\ mOut = <<>> /\ mThrew = FALSE

\* executeAstSearch has been called without a file pattern: the ASTPattern
\* is compiled and walkDirectory(repoPath) has issued its readdir
Init ==
    /\ args = NoValue /\ env = Absent /\ validation = NoValue
    /\ filePattern = Absent
    /\ \E req \in SearchRequests :
          /\ pattern = req.pattern
          /\ mode = req.mode
    /\ maxResults \in 1..MaxResultsBound
    /\ \E sn \in Snapshots :
          /\ fault = sn.fault
          /\ grammarFails = sn.grammarFails
          /\ ioFails = sn.ioFails
    /\ run = 1 /\ firstMatches = <<>>
    /\ phase = "discover"
    /\ pendingReaddir = {RepoPath} /\ pendingStat = {} /\ files = <<>>
    /\ chunkStart = 0 /\ tasks = <<>> /\ arrival = <<>> /\ results = <<>>
    /\ searchResult = NoValue /\ timedOut = FALSE /\ response = NoValue
    /\ parsers = {}
    /\ focus = 1 /\ other = NoValue
    /\ RegIdle
    /\ MatchIdle

Next ==
    \/ \E dir \in Directories : ReaddirResolve(dir)
    \/ \E fullPath \in AllPaths : StatResolve(fullPath)
    \/ \E i \in 1..PARALLEL_CHUNK_SIZE : GetParserResolve(i)
    \/ \E i \in 1..PARALLEL_CHUNK_SIZE : ReadFileResolve(i)
    \/ Timeout
    \/ SearchAgain

Spec == Init /\ [][Next]_vars

\* executeAstSearch has been called with the largest cap
LiveInit == Init /\ maxResults = MaxResultsBound

\* the search with the timer of withTimeout: a deadline that is due fires;
\* nothing is assumed of the completion of readdir, stat, getParser and
\* readFile, which may stay pending for ever
SpecLive == LiveInit /\ [][Next]_vars /\ WF_vars(Timeout)

\* no getParser call has been made and nothing is cached
RegInit ==
    /\ callerLang \in [Callers -> CallerLanguages]
    /\ callerPc = [c \in Callers |-> "idle"]
    /\ callerParser = [c \in Callers |-> 0]
    /\ callerEpoch = [c \in Callers |-> 0]
    /\ initialized = FALSE /\ initCalls = 0
    /\ languagePool = [l \in SUPPORTED_LANGUAGES |-> "none"]
    /\ languageLoading = {}
    /\ parserPool = [l \in SUPPORTED_LANGUAGES |-> 0]
    /\ parserCreating = [l \in SUPPORTED_LANGUAGES |-> 0]
    /\ parserObjs = <<>>
    /\ loadCalls = [l \in SUPPORTED_LANGUAGES |-> 0]
    /\ loadFailures = [l \in SUPPORTED_LANGUAGES |-> 0]
    /\ SearchIdle
    /\ MatchIdle

RegNext ==
    \/ \E c \in Callers : GetParserCall(c)
    \/ \E c \in Callers, ok \in BOOLEAN : InitResolve(c, ok)
    \/ \E l \in CallerLanguages, ok \in BOOLEAN : LoadResolve(l, ok)

SpecRegistry == RegInit /\ [][RegNext]_vars

MatchInit ==
    /\ mPattern \in MatchPatterns
    /\ mMode \in {SIMPLE, PATTERN}
    /\ mFile \in MatchFiles
    /\ mStack = <<RootNode>> /\ mSeen = <<>> /\ mOut = <<>> /\ mThrew = FALSE
    /\ SearchIdle
    /\ RegIdle

MatchNext == VisitNode

SpecMatch == MatchInit /\ [][MatchNext]_vars

\* a call of kit_ast_search has arrived; every file can be read and parsed
ToolInit ==
    /\ \E req \in ToolRequests, glob \in ToolFilePatterns, dir \in ToolPaths,
          cap \in ToolMaxResults :
          args = [pattern |-> req.pattern, mode |-> req.mode,
                  file_pattern |-> glob, path |-> dir, max_results |-> cap]
    /\ env \in EnvPaths
    /\ validation = NoValue
    /\ pattern = "" /\ mode = SIMPLE /\ filePattern = Absent /\ maxResults = 1
    /\ fault = [f \in ParsedFiles |-> "ok"] /\ grammarFails = {} /\ ioFails = {}
    /\ run = 1 /\ firstMatches = <<>>
    /\ phase = "received"
    /\ pendingReaddir = {} /\ pendingStat = {} /\ files = <<>>
    /\ chunkStart = 0 /\ tasks = <<>> /\ arrival = <<>> /\ results = <<>>
    /\ searchResult = NoValue /\ timedOut = FALSE /\ response = NoValue
    /\ parsers = {}
    /\ focus = 1 /\ other = NoValue
    /\ RegIdle
    /\ MatchIdle

ToolNext ==
    \/ KitAstSearch
    \/ \E dir \in Directories : ReaddirResolve(dir)
    \/ \E fullPath \in AllPaths : StatResolve(fullPath)
    \/ \E i \in 1..PARALLEL_CHUNK_SIZE : GetParserResolve(i)
    \/ \E i \in 1..PARALLEL_CHUNK_SIZE : ReadFileResolve(i)
    \/ Timeout

SpecTool == ToolInit /\ [][ToolNext]_vars

\* executeAstSearch has been called twice in a row; every file can be read
\* and parsed
PairInit ==
    /\ args = NoValue /\ env = Absent /\ validation = NoValue
    /\ \E req \in PairRequests :
          /\ pattern = req.pattern /\ mode = req.mode
          /\ filePattern = req.filePattern /\ maxResults = req.maxResults
    /\ fault = [f \in ParsedFiles |-> "ok"] /\ grammarFails = {} /\ ioFails = {}
    /\ run = 1 /\ firstMatches = <<>>
    /\ phase = "discover"
    /\ pendingReaddir = {RepoPath} /\ pendingStat = {} /\ files = <<>>
    /\ chunkStart = 0 /\ tasks = <<>> /\ arrival = <<>> /\ results = <<>>
    /\ searchResult = NoValue /\ timedOut = FALSE /\ response = NoValue
    /\ parsers = {}
    /\ focus = 1
    /\ \E req \in PairRequests : other = StartedCall(req)
    /\ RegIdle
    /\ MatchIdle

PairNext ==
    \/ Switch
    \/ \E dir \in Directories : ReaddirResolve(dir)
    \/ \E fullPath \in AllPaths : StatResolve(fullPath)
    \/ \E i \in 1..PARALLEL_CHUNK_SIZE : GetParserResolve(i)
    \/ \E i \in 1..PARALLEL_CHUNK_SIZE : ReadFileResolve(i)

SpecPair == PairInit /\ [][PairNext]_vars

(***************************************************************************)
(* Properties of the search (checked under Spec)                           *)
(***************************************************************************)
\* whether searchFile obtains a tree for the file: its grammar loads, the
\* read succeeds and the parser returns a tree
HasTree(f) == fault[f] = "ok" /\ LanguageAt[f] \notin grammarFails

\* per request and file, the number of nodes of the tree the pattern accepts
AcceptedNodes ==
    Table([req \in SearchRequests |->
        Table([f \in ParsedFiles |->
            IF MatchThrows(ASTPattern(req.pattern, req.mode)) THEN 0
            ELSE Cardinality({n \in 1..Len(FileTree(f)) :
                    Matches(ASTPattern(req.pattern, req.mode), FileTree(f), n, FileSource(f))})])])

\* the number of matching nodes in the tree searchFile obtains for the file
MatchingNodes(f) == IF HasTree(f) THEN AcceptedNodes[Request][f] ELSE 0

RECURSIVE TotalMatching(_)
\* the matching nodes of the first k candidate files together
TotalMatching(k) == IF k = 0 THEN 0 ELSE TotalMatching(k - 1) + MatchingNodes(files[k])

\* the position of a file of the result in the candidate list
FileIndexOf(rel) == CHOOSE k \in 1..Len(files) : RelativeAt[files[k]] = rel

\* the matches of a list that come from one file
MatchesOfFile(ms, f) == SelectSeq(ms, LAMBDA m : m.file = RelativeAt[f])

\* C1: the list searchPattern returns has at most maxResults entries, and
\* exactly maxResults when the trees of the candidate files together hold
\* more than maxResults matching nodes
CapHonoured ==
    searchResult # NoValue =>
        /\ Len(searchResult.matches) <= maxResults
        /\ searchResult.count = Len(searchResult.matches)
        /\ TotalMatching(Len(files)) > maxResults => Len(searchResult.matches) = maxResults

\* C1 witness: a search over two batches whose files hold more matching
\* nodes than the cap has returned exactly maxResults matches
CapHonouredWitness ==
    /\ searchResult # NoValue
    /\ maxResults >= 2
    /\ chunkStart > PARALLEL_CHUNK_SIZE
    /\ TotalMatching(Len(files)) > maxResults
    /\ Len(searchResult.matches) = maxResults

\* C2: the second run of the same search against the unchanged snapshot (here
\* one in which every file is read and parsed) returns the same ordered list
\* of matches as the first, whatever the completion order of readdir and stat
IdempotentRuns ==
    (run = 2 /\ searchResult # NoValue /\ grammarFails = {}
        /\ \A f \in ParsedFiles : fault[f] = "ok")
    => searchResult.matches = firstMatches

\* C3: in the returned list the matches are grouped by file and the groups
\* follow the order of the candidate list, whatever the completion order
DiscoveryOrder ==
    searchResult # NoValue =>
        \A i, j \in 1..Len(searchResult.matches) :
            i < j => FileIndexOf(searchResult.matches[i].file)
                        <= FileIndexOf(searchResult.matches[j].file)

\* C3 witness: two files of one batch finished in the reverse of their
\* order in the candidate list, and both have matches in the result
DiscoveryOrderWitness ==
    /\ searchResult # NoValue
    /\ \E a, b \in 1..Len(arrival) :
          /\ a < b
          /\ \E x, y \in 1..Len(files) :
                /\ files[x] = arrival[a] /\ files[y] = arrival[b] /\ y < x
                /\ MatchesOfFile(searchResult.matches, files[x]) # <<>>
                /\ MatchesOfFile(searchResult.matches, files[y]) # <<>>

\* C4: when the cap is not reached, a file whose read or parse fails
\* contributes no match, the search still returns a result, and every file
\* that is read and parsed contributes exactly the matches of its own walk
FaultIsolation ==
    (searchResult # NoValue /\ Len(searchResult.matches) < maxResults) =>
        /\ searchResult.kind = "result"
        /\ \A k \in 1..Len(files) :
              /\ fault[files[k]] # "ok" =>
                    MatchesOfFile(searchResult.matches, files[k]) = <<>>
              /\ HasTree(files[k]) =>
                    MatchesOfFile(searchResult.matches, files[k]) =
                        RootWalk[Request][files[k]]

\* C4 witness: a search with a failing file ended below the cap with the
\* matches of the other files
FaultIsolationWitness ==
    /\ searchResult # NoValue
    /\ \E k \in 1..Len(files) : fault[files[k]] # "ok"
    /\ Len(searchResult.matches) < maxResults
    /\ Len(searchResult.matches) >= 2

\* C5: once getParser has rejected for the language of a candidate file,
\* executeAstSearch returns an error, never a result
GrammarFailureFailsSearch ==
    (response # NoValue /\ ~timedOut
        /\ \E k \in 1..Len(arrival) : LanguageAt[arrival[k]] \in grammarFails)
    => response.kind = "error"

\* the error executeAstSearch builds for an exception that is no timeout
GenericFailure == CatchToResponse([name |-> "Error", message |-> "search failed"])

\* C6: the error returned after the deadline carries the timeout type tag,
\* which differs from the tag of a generic execution failure
TimeoutTypeDistinct ==
    timedOut => /\ response.kind = "error"
                /\ response.type = "Timeout"
                /\ response.type # GenericFailure.type

\* C7: after the deadline the response is an error without matches, also
\* when the search resolves later; a result is returned only by a search
\* that resolved before the deadline
FailClosed ==
    /\ timedOut => (response.kind = "error" /\ "matches" \notin DOMAIN response)
    /\ response.kind = "result" => (~timedOut /\ response = searchResult)

\* C7 witness: the deadline fired, the search resolved afterwards with
\* matches, and the response is still the error
FailClosedWitness ==
    /\ timedOut
    /\ searchResult # NoValue
    /\ Len(searchResult.matches) > 0
    /\ response.kind = "error"

(***************************************************************************)
(* Properties of the registry (checked under SpecRegistry)                 *)
(***************************************************************************)
\* the parsers constructed by the factory of a language
Constructed(l) == {i \in 1..Len(parserObjs) : parserObjs[i].madeFor = l}

\* the loads of a language that succeeded
LoadSuccesses(l) ==
    loadCalls[l] - loadFailures[l] - (IF l \in languageLoading THEN 1 ELSE 0)

\* the callers of a language that have received a parser
Served(l) == {c \in Callers : callerLang[c] = l /\ callerPc[c] = "resolved"}

DedicatedParser ==
    /\ \A l \in SUPPORTED_LANGUAGES :
          parserPool[l] # 0 =>
              /\ parserObjs[parserPool[l]].grammar = GrammarOf(l)
              /\ parserObjs[parserPool[l]].setLanguageCalls = 1
    /\ \A i \in 1..Len(parserObjs) : parserObjs[i].setLanguageCalls <= 1

\* C9 witness: parsers of two languages are cached side by side
DedicatedParserWitness ==
    /\ parserPool["typescript"] # 0
    /\ parserPool["python"] # 0
    /\ parserPool["typescript"] # parserPool["python"]

(***************************************************************************)
(* Properties of the matcher (checked under SpecMatch)                     *)
(***************************************************************************)
\* C10: in criteria mode a pattern text that parses to an object with no
\* field accepts no node of the tree
EmptyCriteriaMatchNothing ==
    (mMode = PATTERN /\ JSONParse(mPattern) = JObject(NoFields)) => mOut = <<>>

\* C10 witness: the whole tree has been walked with the criteria {}
EmptyCriteriaWitness ==
    /\ mMode = PATTERN
    /\ mPattern = "{}"
    /\ mStack = <<>>
    /\ Len(mSeen) = Len(FileTree(mFile))
    /\ mOut = <<>>

\* the compiled pattern, the tree and the source of the walk
WalkPattern == ASTPattern(mPattern, mMode)
WalkTree == FileTree(mFile)
WalkSource == FileSource(mFile)

\* the nodes visited so far that satisfy a condition, in visiting order
SeenWhere(Cond(_)) == SelectSeq(mSeen, Cond)

\* the matches createMatch builds for a list of nodes of the walked tree
MatchesOfNodes(nodes) ==
    [i \in 1..Len(nodes) |-> createMatch(WalkTree, nodes[i], WalkSource, mFile)]

\* the nodes visited so far that the pattern accepted: one match each
AcceptedSeen == SeenWhere(LAMBDA n : Matches(WalkPattern, WalkTree, n, WalkSource))

CriteriaFields == {"type", "async", "name", "textMatch"}

\* a criteria object as the interface declares it: type, name and textMatch
\* are strings, async is a boolean
WellFormedCriteria(v) ==
    /\ v.kind = "object"
    /\ DOMAIN v.fields \subseteq CriteriaFields
    /\ \A k \in DOMAIN v.fields :
          v.fields[k].kind = (IF k = "async" THEN "boolean" ELSE "string")

\* whether a given field of the criteria holds for a node
FieldHolds(v, k, n) ==
    CASE k = "type"  -> JStr(WalkTree[n].type) = v.fields[k]
      [] k = "async" -> JBool(hasAsyncModifier(WalkTree, n, WalkSource)) = v.fields[k]
      [] k = "name"  -> PatternNodeName(WalkTree, n, WalkSource) = v.fields[k]
      [] OTHER       -> Includes(getNodeText(WalkTree, n, WalkSource), v.fields[k].str)

\* at least one field is given and every given field holds
CriteriaAccepts(v, n) ==
    /\ DOMAIN v.fields # {}
    /\ \A k \in DOMAIN v.fields : FieldHolds(v, k, n)

\* C11: in criteria mode the matches are exactly the visited nodes for which
\* at least one of type, async, name, textMatch is given and every given
\* field holds (so {"async":false} yields the nodes without async modifier)
CriteriaExact ==
    (mMode = PATTERN /\ WellFormedCriteria(JSONParse(mPattern))) =>
        mOut = MatchesOfNodes(SeenWhere(LAMBDA n : CriteriaAccepts(JSONParse(mPattern), n)))

\* C12: in criteria mode a pattern text that is no JSON, or JSON for a value
\* that is no object, matches exactly the visited nodes whose source slice
\* contains the pattern text, and matching never raises
UnusableCriteriaFallBack ==
    (mMode = PATTERN /\ JSONParse(mPattern).kind # "object") =>
        /\ ~mThrew
        /\ mOut = MatchesOfNodes(SeenWhere(LAMBDA n :
                      Includes(getNodeText(WalkTree, n, WalkSource), mPattern)))

\* whether the lower-cased pattern text holds a keyword
Wants(keyword) == Includes(ToLowerCase(mPattern), keyword)
WantsDef == Wants("function") \/ Wants("def") \/ Wants("method")
WantsTry == Wants("try") \/ Wants("catch")

\* C13: in free-text mode with a construct keyword in the pattern, every
\* match is of a node whose type fits each construct asked for
ConstructsConjunctive ==
    (mMode = SIMPLE /\ (WantsDef \/ Wants("class") \/ WantsTry \/ Wants("import") \/ Wants("export")))
    => \A i \in 1..Len(mOut) :
          /\ WantsDef => mOut[i].nodeType \in FUNCTION_NODE_TYPES
          /\ Wants("class") => mOut[i].nodeType \in CLASS_NODE_TYPES
          /\ WantsTry => mOut[i].nodeType = "try_statement"
          /\ Wants("import") => Includes(mOut[i].nodeType, "import")
          /\ Wants("export") => Includes(mOut[i].nodeType, "export")

\* C13 witness: the class-with-method tree has been walked with "export
\* class"; the class and the export statement were visited, and neither is
\* reported because neither is both
ConstructsConjunctiveWitness ==
    /\ mMode = SIMPLE
    /\ mPattern = "export class"
    /\ mFile = PathC
    /\ mStack = <<>>
    /\ Len(mSeen) = Len(TreeC)
    /\ mOut = <<>>

\* the pattern text holds none of the keywords of the free-text mode
NoKeyword ==
    ~(Wants("async") \/ WantsDef \/ Wants("class") \/ WantsTry \/ Wants("import")
        \/ Wants("export"))

\* the matches of the visited nodes whose source slice contains the pattern
\* text as it was given
TextHits ==
    MatchesOfNodes(SeenWhere(LAMBDA n : Includes(getNodeText(WalkTree, n, WalkSource), mPattern)))

\* C14 as stated: in free-text mode a pattern without keyword matches
\* exactly the visited nodes whose source slice contains the pattern text
TextFallbackExact ==
    (mMode = SIMPLE /\ NoKeyword) => mOut = TextHits

\* C14 amended: the same for a pattern text that is not empty; the empty
\* pattern text matches no node
TextFallbackNonEmpty ==
    (mMode = SIMPLE /\ NoKeyword) =>
        mOut = (IF mPattern = "" THEN <<>> ELSE TextHits)

\* C14 witness: the walk with the pattern "K" has reported the nodes that
\* contain the upper-case letter
TextFallbackWitness ==
    /\ mMode = SIMPLE
    /\ mPattern = "K"
    /\ mFile = PathC
    /\ mStack = <<>>
    /\ Len(mOut) = 4

\* a node that carries the async keyword of the language
IsAsyncNode(n) ==
    \E i \in 1..Len(WalkTree[n].children) : WalkTree[WalkTree[n].children[i]].type = "async"

\* C15: with the free-text pattern "async function" the matches are exactly
\* the visited function-like nodes that are async
AsyncFunctionExact ==
    (mMode = SIMPLE /\ mPattern = "async function") =>
        mOut = MatchesOfNodes(SeenWhere(LAMBDA n :
                   isFunctionNode(WalkTree[n].type) /\ IsAsyncNode(n)))

\* the source slice of the node of the i-th match
AcceptedText(i) == NodeText(WalkTree, AcceptedSeen[i], WalkSource)

\* C16 as stated: a node text longer than 500 characters is reported as its
\* first 500 characters followed by a marker, a shorter one unchanged
TruncationKeepsLimit ==
    ~mThrew =>
        \A i \in 1..Len(mOut) :
            IF Len(AcceptedText(i)) <= 500
            THEN mOut[i].text = AcceptedText(i)
            ELSE /\ Len(mOut[i].text) > 500
                 /\ SubSeq(mOut[i].text, 1, 500) = SubSeq(AcceptedText(i), 1, 500)

\* C16 amended: a node text longer than 500 characters is reported as its
\* first 497 characters followed by "...", 500 characters in all; a node
\* text of at most 500 characters is reported unchanged
TruncationWithinLimit ==
    ~mThrew =>
        \A i \in 1..Len(mOut) :
            IF Len(AcceptedText(i)) <= 500
            THEN mOut[i].text = AcceptedText(i)
            ELSE /\ Len(mOut[i].text) = 500
                 /\ mOut[i].text = SubSeq(AcceptedText(i), 1, 497) \o "..."

\* C16 witness: a node of exactly 500 characters is reported whole next to
\* a node of 501 characters that is reported cut
TruncationWitness ==
    /\ ~mThrew
    /\ \E i, j \in 1..Len(mOut) :
          /\ Len(AcceptedText(i)) = 500 /\ mOut[i].text = AcceptedText(i)
          /\ Len(AcceptedText(j)) = 501 /\ mOut[j].text # AcceptedText(j)

RECURSIVE NearestScope(_)
\* the nearest function-like or class-like node from p upwards (0: none)
NearestScope(p) ==
    IF p = 0 THEN 0
    ELSE IF isFunctionNode(WalkTree[p].type) \/ isClassNode(WalkTree[p].type) THEN p
         ELSE NearestScope(ParentOf(WalkTree, p))

RECURSIVE StrictAncestors(_)
\* the strict ancestors of a node
StrictAncestors(n) ==
    IF ParentOf(WalkTree, n) = 0 THEN {}
    ELSE {ParentOf(WalkTree, n)} \cup StrictAncestors(ParentOf(WalkTree, n))

CandidateFilter ==
    /\ \A k \in 1..Len(files) :
          /\ detectLanguage(files[k]) # NoLanguage
          /\ StatOf(files[k]).size <= MAX_FILE_SIZE
          /\ filePattern # Absent => GlobMatch(filePattern, Relative(RepoPath, files[k]))
    /\ (searchResult # NoValue /\ filePattern # Absent) =>
          \A i \in 1..Len(searchResult.matches) :
              GlobMatch(filePattern, searchResult.matches[i].file)

\* C18 witness: with the file pattern "*.ts" the search has ended with a.ts
\* as its only candidate and with matches, all of them from a.ts
CandidateFilterWitness ==
    /\ filePattern = "*.ts"
    /\ searchResult # NoValue
    /\ files = <<PathA>>
    /\ Len(searchResult.matches) > 0
    /\ \A i \in 1..Len(searchResult.matches) : searchResult.matches[i].file = "a.ts"

\* a name walkDirectory skips
Denied(name) == name \in SKIP_DIRS \/ StartsWith(name, ".")

\* a path below the root with a skipped name among its components
BelowDenied(path) ==
    LET parts == Split(Relative(RepoPath, path), "/")
    IN  \E i \in 1..Len(parts) : Denied(parts[i])

\* C19: readdir and stat are never called on a path below the root that has
\* a deny-listed or dot-prefixed component, and no candidate file has one
NoDeniedDescent ==
    /\ \A dir \in pendingReaddir : dir # RepoPath => ~BelowDenied(dir)
    /\ \A path \in pendingStat : ~BelowDenied(path)
    /\ \A k \in 1..Len(files) : ~BelowDenied(files[k])

\* C19 witness: discovery has ended after descending into lib, whose file is
\* a candidate, while .git, node_modules, .github and lib/dist were passed by
NoDeniedDescentWitness ==
    /\ phase = "settled"
    /\ filePattern = Absent
    /\ Len(files) = 3
    /\ \E k \in 1..Len(files) : files[k] = PathC

PatternGiven == Trim(args.pattern) # ""
ModeKnown ==
    ToLowerCase(IF args.mode = Absent THEN "simple" ELSE args.mode) \in {"simple", "pattern"}
GlobAccepted == args.file_pattern = Absent \/ args.file_pattern # UnsafeGlob
IsDirectory(dir) == dir \in Directories
PathAcceptedCwd == IsDirectory(IF args.path = Absent THEN Cwd ELSE args.path)
PathAccepted ==
    IsDirectory(IF args.path # Absent THEN args.path
                ELSE IF env # Absent THEN env ELSE Cwd)
MaxResultsAccepted ==
    ~args.max_results.given \/ args.max_results.value \in 1..500

\* the number of inputs that fail, given whether the path is accepted
Failing(pathOk) ==
    Cardinality({k \in {"pattern", "mode", "glob", "path", "max"} :
        \/ k = "pattern" /\ ~PatternGiven
        \/ k = "mode" /\ ~ModeKnown
        \/ k = "glob" /\ ~GlobAccepted
        \/ k = "path" /\ ~pathOk
        \/ k = "max" /\ ~MaxResultsAccepted})

\* what the claim says of the returned value, given whether the path is
\* accepted and what the default path is
ValidationContract(pathOk, defaultPath) ==
    validation # NoValue =>
        /\ validation.valid <=> Failing(pathOk) = 0
        /\ validation.valid =>
              /\ validation.errors = <<>>
              /\ validation.validated.pattern = Trim(args.pattern)
              /\ validation.validated.mode \in {"simple", "pattern"}
              /\ validation.validated.mode =
                    ToLowerCase(IF args.mode = Absent THEN "simple" ELSE args.mode)
              /\ validation.validated.filePattern = args.file_pattern
              /\ validation.validated.path =
                    (IF args.path = Absent THEN defaultPath ELSE args.path)
              /\ validation.validated.maxResults =
                    (IF args.max_results.given THEN args.max_results.value ELSE 100)
        /\ ~validation.valid =>
              /\ "validated" \notin DOMAIN validation
              /\ Len(validation.errors) = Failing(pathOk)
              /\ ~PatternGiven =>
                    \E i \in 1..Len(validation.errors) :
                        validation.errors[i] = "Pattern cannot be empty"
              /\ ~ModeKnown =>
                    \E i \in 1..Len(validation.errors) :
                        StartsWith(validation.errors[i], "Invalid mode")
              /\ ~GlobAccepted =>
                    \E i \in 1..Len(validation.errors) :
                        StartsWith(validation.errors[i], "File pattern")
              /\ ~pathOk =>
                    \E i \in 1..Len(validation.errors) :
                        StartsWith(validation.errors[i], "Path ")
              /\ ~MaxResultsAccepted =>
                    \E i \in 1..Len(validation.errors) :
                        StartsWith(validation.errors[i], "maxResults")

CandidateSet(glob) == {f \in ParsedFiles : glob = Absent \/ GlobAt[glob][f]}

\* the matches a search returns when it runs alone and collects the
\* candidates in the order of the list fs
SoloMatches(st, fs) ==
    Take(Flatten([i \in 1..Len(fs) |->
                    RootWalk[[pattern |-> st.pattern, mode |-> st.mode]][fs[i]]]),
         st.maxResults)

\* the locals st of a call hold nothing of the other call
Isolated(st) ==
    /\ \A i \in 1..Len(st.files) : st.files[i] \in CandidateSet(st.filePattern)
    /\ \A i, j \in 1..Len(st.files) : st.files[i] = st.files[j] => i = j
    /\ \A i \in 1..Len(st.tasks) :
          /\ st.chunkStart + i <= Len(st.files)
          /\ st.tasks[i].file = st.files[st.chunkStart + i]
    /\ st.results = Flatten([i \in 1..Min(st.chunkStart, Len(st.files)) |->
                      RootWalk[[pattern |-> st.pattern, mode |-> st.mode]][st.files[i]]])
    /\ st.phase = "settled" =>
          /\ {st.files[i] : i \in 1..Len(st.files)} = CandidateSet(st.filePattern)
          /\ st.response.kind = "result"
          /\ st.response.matches = SoloMatches(st, st.files)
          /\ st.response.count = Len(st.response.matches)
          /\ st.response.pattern = st.pattern

\* C22: of two searches that run interleaved at their await points, each
\* collects exactly the candidates of its own file pattern, works on its own
\* batch and accumulator, and returns the matches it returns alone for the
\* same order of discovery
IsolatedSearches ==
    other # NoValue => Isolated(Locals) /\ Isolated(other)

\* C22 witness: two searches with different requests have run interleaved;
\* one has returned its capped result while the other, with matches of its
\* first batch accumulated, is in its second batch
IsolatedSearchesWitness ==
    /\ other # NoValue
    /\ pattern # other.pattern
    /\ phase = "settled" /\ response.kind = "result" /\ response.count = maxResults
    /\ other.phase = "process" /\ other.chunkStart > 0 /\ other.results # <<>>

(***************************************************************************)
(* Batches and the cut-off (checked under Spec)                            *)
(***************************************************************************)
\* the candidates that were handed to searchFile so far
Started == {files[k] : k \in 1..Min(Len(files), chunkStart + Len(tasks))}

\* C23: the candidates are processed in batches of PARALLEL_CHUNK_SIZE in
\* the order of the list; a batch is only in flight while fewer than
\* maxResults matches are accumulated, no file of a batch that was not
\* started is read or parsed, and when the accumulated matches reach
\* maxResults the result holds exactly the first maxResults of them
BatchedCutoff ==
    /\ chunkStart % PARALLEL_CHUNK_SIZE = 0
    /\ phase = "process" =>
          /\ Len(results) < maxResults
          /\ Len(tasks) = Min(PARALLEL_CHUNK_SIZE, Len(files) - chunkStart)
          /\ \A i \in 1..Len(tasks) : tasks[i].file = files[chunkStart + i]
    /\ phase # "process" => tasks = <<>>
    /\ \A k \in 1..Len(arrival) : arrival[k] \in Started
    /\ (phase = "settled" /\ Len(results) >= maxResults) =>
          /\ searchResult.kind = "result"
          /\ searchResult.count = maxResults
          /\ searchResult.matches = SubSeq(results, 1, maxResults)

\* C23 witness: the first batch brought more matches than maxResults; the
\* search has resolved with exactly maxResults of them and the candidate of
\* the second batch was never handed to searchFile
BatchedCutoffWitness ==
    /\ phase = "settled"
    /\ Len(files) > PARALLEL_CHUNK_SIZE
    /\ chunkStart = PARALLEL_CHUNK_SIZE
    /\ Len(results) > maxResults
    /\ searchResult.kind = "result"
    /\ searchResult.count = maxResults
    /\ \E k \in 1..Len(files) : files[k] \notin Started

(***************************************************************************)
(* The order of the walk (checked under SpecMatch)                         *)
(***************************************************************************)
RECURSIVE PreOrder(_, _)
RECURSIVE PreOrderAll(_, _)
\* the nodes of the subtree of n, a node before its children and the
\* children from left to right
PreOrder(tree, n) == <<n>> \o PreOrderAll(tree, tree[n].children)
PreOrderAll(tree, kids) ==
    IF kids = <<>> THEN <<>>
    ELSE PreOrder(tree, Head(kids)) \o PreOrderAll(tree, Tail(kids))

\* C24: the nodes are tested in depth-first pre-order, every node of the
\* tree once, below matching nodes as well, and the matches of the file are
\* the matches of the accepted nodes in that order, one for each
PreOrderWalk ==
    ~mThrew =>
        LET order == PreOrder(WalkTree, RootNode)
        IN  /\ Len(order) = Len(WalkTree)
            /\ Len(mSeen) <= Len(order)
            /\ mSeen = SubSeq(order, 1, Len(mSeen))
            /\ mStack = <<>> => mSeen = order
            /\ mOut = MatchesOfNodes(AcceptedSeen)

\* C24 witness: the walk of the class-with-method tree with the pattern "K"
\* is complete: the root matched, its descendants were visited, and four
\* nodes in all were reported
PreOrderWalkWitness ==
    /\ mMode = SIMPLE /\ mPattern = "K" /\ mFile = PathC
    /\ mStack = <<>>
    /\ Len(mSeen) = Len(TreeC)
    /\ Len(mOut) = 4
    /\ mOut[1].nodeType = "program"

(***************************************************************************)
(* The name criterion (checked under SpecMatch)                            *)
(***************************************************************************)
\* the name the statement gives a node: the text of its "name" field-child
\* or, without such a child, of its first identifier-typed child
FieldFirstName(n) ==
    LET ch == WalkTree[n].children
        ids == {i \in 1..Len(ch) : WalkTree[ch[i]].type \in NameChildTypes}
    IN  IF WalkTree[n].nameField # 0
        THEN JStr(NodeText(WalkTree, WalkTree[n].nameField, WalkSource))
        ELSE IF ids # {}
             THEN JStr(NodeText(WalkTree, ch[CHOOSE i \in ids : \A j \in ids : i <= j],
                                WalkSource))
             ELSE Undefined

\* C25: in criteria mode with a name given, every reported node has the
\* given name as the text of its "name" field-child or, when it has no such
\* child, of its first identifier-typed child
NameByFieldFirst ==
    (mMode = PATTERN /\ WellFormedCriteria(WalkPattern.criteria)
        /\ Truthy(Field(WalkPattern.criteria, "name"))) =>
        \A i \in 1..Len(mSeen) :
            Matches(WalkPattern, WalkTree, mSeen[i], WalkSource) =>
                FieldFirstName(mSeen[i]) = Field(WalkPattern.criteria, "name")

(***************************************************************************)
(* The initialisation of the runtime (checked under SpecRegistry)          *)
(***************************************************************************)
\* C26: Parser.init() is called at most once, whatever the number of
\* getParser calls made before the first call of it has resolved
InitOnce == initCalls <= 1

(***************************************************************************)
(* The keyword async on its own (checked under SpecMatch)                  *)
(***************************************************************************)
\* C27: in free-text mode a pattern with the keyword async and none of the
\* construct keywords matches no node
AsyncAloneMatchesNothing ==
    (mMode = SIMPLE /\ Wants("async") /\ ~WantsDef /\ ~Wants("class") /\ ~WantsTry
        /\ ~Wants("import") /\ ~Wants("export")) =>
        /\ mOut = <<>>
        /\ \A i \in 1..Len(mSeen) : ~Matches(WalkPattern, WalkTree, mSeen[i], WalkSource)

\* C27 witness: the tree of "async function f(){} function g(){}", three
\* nodes of which contain the text async, has been walked with the pattern
\* "async" without a match
AsyncAloneWitness ==
    /\ mMode = SIMPLE /\ mPattern = "async" /\ mFile = PathA
    /\ mStack = <<>>
    /\ Len(mSeen) = Len(TreeA)
    /\ Cardinality({n \in 1..Len(TreeA) : Includes(NodeText(TreeA, n, SourceA), "async")}) = 3
    /\ mOut = <<>>

(***************************************************************************)
(* Text matching along the ancestors (checked under SpecMatch)             *)
(***************************************************************************)
\* the compiled pattern only tests the text of a node: a free-text pattern
\* without keyword, or criteria whose only field is textMatch
TextOnly ==
    \/ mMode = SIMPLE /\ NoKeyword
    \/ /\ mMode = PATTERN
       /\ WalkPattern.criteria.kind = "object"
       /\ DOMAIN WalkPattern.criteria.fields = {"textMatch"}

\* C28: for a pattern that only tests the text, every ancestor of a node
\* that matches matches as well, and the first match of a file that has a
\* match is its root node
TextUpwardClosed ==
    (TextOnly /\ ~mThrew) =>
        /\ \A n \in 1..Len(WalkTree) :
              Matches(WalkPattern, WalkTree, n, WalkSource) =>
                  \A a \in StrictAncestors(n) : Matches(WalkPattern, WalkTree, a, WalkSource)
        /\ mOut # <<>> => mOut[1] = createMatch(WalkTree, RootNode, WalkSource, mFile)
        /\ (mStack = <<>> /\ \E n \in 1..Len(WalkTree) :
                                Matches(WalkPattern, WalkTree, n, WalkSource)) =>
              mOut # <<>>

\* C28 witness: the walk with the criteria {"textMatch":"try"} over the
\* class whose method holds a try statement is complete; the try statement
\* is reported, and so are its ancestors, the root first
TextUpwardClosedWitness ==
    /\ mMode = PATTERN /\ mPattern = "{\"textMatch\":\"try\"}" /\ mFile = PathC
    /\ mStack = <<>>
    /\ Len(mOut) > 2
    /\ mOut[1].nodeType = "program"
    /\ mOut[Len(mOut)].nodeType = "try_statement"

(***************************************************************************)
(* Directories and entries that cannot be read (checked under Spec)        *)
(***************************************************************************)
\* the directories a file lies in, from the root down
DirsAbove(f) == {d \in Directories : StartsWith(f, d \o "/")}

\* the candidates whose stat, and the readdir and stat of the directories
\* they lie in, are not rejected
Discoverable ==
    {f \in ParsedFiles :
        /\ [op |-> "stat", path |-> f] \notin ioFails
        /\ \A d \in DirsAbove(f) :
              /\ [op |-> "readdir", path |-> d] \notin ioFails
              /\ d # RepoPath => [op |-> "stat", path |-> d] \notin ioFails}

\* C29: a rejected readdir or stat only removes what lies below it: the
\* candidates collected are those that can be reached without the rejected
\* calls, the search resolves with a result and not with an error, and when
\* the root cannot be listed the result has count 0 and no matches
UnreadableSkipped ==
    /\ \A k \in 1..Len(files) : files[k] \in Discoverable
    /\ phase \in {"process", "settled"} =>
          {files[k] : k \in 1..Len(files)} = Discoverable
    /\ phase = "settled" =>
          /\ searchResult.kind = "result"
          /\ ~timedOut => response = searchResult
          /\ [op |-> "readdir", path |-> RepoPath] \in ioFails =>
                searchResult.count = 0 /\ searchResult.matches = <<>>

\* C29 witness: the directory lib could not be listed; the search has
\* resolved with the matches of the two files next to it
UnreadableSkippedWitness ==
    /\ ioFails = {[op |-> "readdir", path |-> "/r/lib"]}
    /\ phase = "settled" /\ ~timedOut
    /\ Len(files) = 2
    /\ response.kind = "result"
    /\ response.count > 0

(***************************************************************************)
(* What executeAstSearch resolves with (checked under SpecLive)            *)
(***************************************************************************)
KitErrorTypes ==
    {"KitNotInstalled", "InvalidPath", "InvalidInput", "SemanticNotAvailable",
     "SemanticIndexNotBuilt", "TooManyResults", "KitCommandFailed", "OutputParseError",
     "Timeout"}

\* what executeAstSearch has resolved with is a result that echoes the
\* request and counts its matches, or an error object with type and message
WellFormedResponse ==
    response # NoValue =>
        \/ /\ response.kind = "result"
           /\ response.count = Len(response.matches)
           /\ response.pattern = pattern /\ response.mode = mode
           /\ response.path = RepoPath
        \/ /\ response.kind = "error"
           /\ response.type \in KitErrorTypes
           /\ response.error # ""
           /\ "matches" \notin DOMAIN response

\* C30: executeAstSearch resolves with a well-formed result or error
\* object and never rejects, the deadline gives an error object, and every
\* call resolves in the end, whether the file system answers or not
AlwaysResolves ==
    /\ [](WellFormedResponse /\ (timedOut => response.kind = "error"))
    /\ (response = NoValue) ~> (response # NoValue)

\* C30 witness: the first readdir never settled; the deadline has fired and
\* the call has resolved with an error object while the search is pending
AlwaysResolvesWitness ==
    /\ phase = "discover" /\ pendingReaddir = {RepoPath} /\ files = <<>>
    /\ timedOut
    /\ response.kind = "error" /\ response.type = "KitCommandFailed"

=============================================================================
